---- MODULE Spec2Model ----
(***************************************************************************)
(* Model of the target-prediction aggregation and threshold-filter engine: *)
(*   - backend/app.py            /filter-network-input and /filter-count   *)
(*   - build_tcmnp_input.py      threshold filter and edge-list builder    *)
(*   - run_target_prediction.py  run loop, PPB3 retry, rank, save_outputs  *)
(*                                                                         *)
(* Scores (Probability, Max_Tc and their cutoffs) live on an               *)
(* order-preserving integer grid: level 0 is 0.0, level 1 is 0.4, level 2  *)
(* is 0.8.  P-values live on their own grid: 0 is 0.0, 1 is 1e-5, 2 is     *)
(* 1e-4, 3 is 1.0, 4 is 999.  The code only compares these numbers, so an   *)
(* order-preserving grid keeps every decision of the code.                 *)
(***************************************************************************)
EXTENDS Integers, Sequences, FiniteSets, TLC

VARIABLES
    \* --- persisted aggregate and the threshold filters ---
    df_exists,      \* combined_target_predictions_all3_human.csv exists
    df,             \* its rows, as pd.read_csv returns them
    tcm_file,       \* 3_tcmnp_input/tcm_input.csv: [dir, exists, rows]
    resp,           \* the request being answered: operation, arguments, result
    \* --- run_target_prediction.py main() ---
    compounds,      \* the molecules read_phytochemical_csv returned
    skip,           \* --skip-swiss / --skip-sea / --skip-ppb3
    pc,             \* position of main()
    cur,            \* index of the compound being processed (1-based)
    all_rows,       \* rows collected so far
    driver,         \* the Selenium session: "none", "open", "quit"
    out,            \* the files save_outputs wrote
    last_query,     \* outcome of the source block just run, inside the loop
    seen,           \* rows / failure / rows-after-failure monitor (observation)
    \* --- run_ppb3_for_compound and ppb3_submit_smiles_for_method ---
    HAS_BS4,        \* beautifulsoup4 could be imported
    ppc,            \* position inside the PPB3 adapter
    method_ix,      \* index of the current method (1-based)
    retry,          \* argument retry of the current call
    requests,       \* requests.post calls issued for the current method
    slept,          \* time.sleep arguments for the current method, in order
    response,       \* what the last requests.post produced
    targets,        \* value returned for the current method
    ppb3_rows,      \* rows of run_ppb3_for_compound so far
    \* --- sea_parse_table and ppb3_extract_targets_from_page on one table ---
    raw_table,      \* the results table handed to the parser: [kind, rows]
    parsed,         \* what the parser returned: [done, rows]
    \* --- backend/app.py: the prediction stage and /stop ---
    pipeline_running,   \* the global flag
    current_process,    \* the global Popen handle: "none" or "child"
    proc,           \* the run_target_prediction.py process: "none",
                    \* "running", "exited", "killed"
    in_call,        \* the process is inside a source block's external calls
    \* --- backend/app.py: requests, pipeline threads and log streams ---
    threads,        \* per request: the thread run_pipeline_background runs in
    log_queue,      \* per request: the Queue the thread writes to
    stream          \* per request: the StreamingResponse of the request

fvars == <<df_exists, df, tcm_file, resp>>
rvars == <<compounds, skip, pc, cur, all_rows, driver, out, last_query, seen>>
pvars == <<HAS_BS4, ppc, method_ix, retry, requests, slept, response, targets, ppb3_rows>>
svars == <<raw_table, parsed>>
cvars == <<pipeline_running, current_process, proc, in_call>>
tvars == <<threads, log_queue, stream>>
vars == <<fvars, rvars, pvars, svars, cvars, tvars>>

\* ------------------------------------------------------------------------
\* Bounds
\* ------------------------------------------------------------------------
MaxScore == 2       \* scores and cutoffs range over 0..MaxScore
MaxRows == 1        \* rows of the aggregate the filters read
MaxCompounds == 2   \* molecules of one run
MaxTable == 1       \* rows of one results table, hits of one PPB3 query
MaxPageRows == 1    \* rows of the results table of one PPB3 response
MaxEdgeRows == 2    \* rows of the aggregate the edge builder reads
MaxRawRows == 2     \* body rows of a results table handed to a parser
MaxCsvRows == 2     \* rows of the input CSV, values of --max-compounds
MaxRequests == 2    \* /run-stream and /reanalyze requests received
MaxLines == 1       \* output lines of one subprocess

\* ------------------------------------------------------------------------
\* Numbers of the program on the two grids
\* ------------------------------------------------------------------------
NaN == -1           \* an empty CSV cell as read by pandas (float nan)
DASH == -2          \* the literal "-" cell
SCORE_04 == 1       \* 0.4
SCORE_08 == 2       \* 0.8
PVAL_1E5 == 1       \* 1e-5
PVAL_1E4 == 2       \* 1e-4
PVAL_ONE == 3       \* 1.0
PVAL_999 == 4       \* 999

SeqsUpTo(S, n) == UNION {[1..k -> S] : k \in 0..n}

SWISS == "SwissTargetPrediction"
SEA == "SEA"
PPB3 == "PPB3"
Databases == {SWISS, SEA, PPB3}

\* Python float comparisons: every comparison with nan is False.
GE(a, b) == a # NaN /\ b # NaN /\ a >= b
GT(a, b) == a # NaN /\ b # NaN /\ a > b
LE(a, b) == a # NaN /\ b # NaN /\ a <= b
LT(a, b) == a # NaN /\ b # NaN /\ a < b

\* Lexicographic order of the Database strings, as sort_values orders them.
DbOrd(db) == IF db = PPB3 THEN 1 ELSE IF db = SEA THEN 2 ELSE 3

\* ------------------------------------------------------------------------
\* backend/app.py: row_passes of /filter-network-input and /filter-count
\* ------------------------------------------------------------------------
\* float(row.get(col, d)) if row.get(col) not in ['-', None, ''] else d
cell_or(v, d) == IF v = DASH THEN d ELSE v

swiss_active(swiss) == swiss > 0
ppb3_active(ppb3) == ppb3 > 0
sea_active(sea, sea_pval) == sea > 0 \/ sea_pval < PVAL_ONE

\* mutants of swiss_pass: the source test forgotten; the comparison inverted
swiss_pass_any_source(db, prob, swiss) == GE(prob, swiss)
swiss_pass_inverted(db, prob, swiss) == db = SWISS /\ LE(prob, swiss)
swiss_pass(db, prob, swiss) == db = SWISS /\ GE(prob, swiss)
ppb3_pass(db, prob, ppb3) == db = PPB3 /\ GE(prob, ppb3)
\* mutant of sea_pass: either condition suffices
sea_pass_either(db, max_tc, p_val, sea, sea_pval) ==
    db = SEA /\ (GE(max_tc, sea) \/ LE(p_val, sea_pval))
sea_pass(db, max_tc, p_val, sea, sea_pval) ==
    db = SEA /\ GE(max_tc, sea) /\ LE(p_val, sea_pval)

\* results = [r for r in [swiss_pass, ppb3_pass, sea_pass] if r is not None]
active_results(row, swiss, ppb3, sea, sea_pval) ==
    LET db == row.Database
        prob == cell_or(row.Probability, 0)
        max_tc == cell_or(row.Max_Tc, 0)
        p_val == cell_or(row.P_Value, PVAL_999)
    IN  (IF swiss_active(swiss) THEN <<swiss_pass(db, prob, swiss)>> ELSE <<>>)
        \o (IF ppb3_active(ppb3) THEN <<ppb3_pass(db, prob, ppb3)>> ELSE <<>>)
        \o (IF sea_active(sea, sea_pval)
            THEN <<sea_pass(db, max_tc, p_val, sea, sea_pval)>> ELSE <<>>)

py_all(results) == \A i \in 1..Len(results) : results[i]
py_any(results) == \E i \in 1..Len(results) : results[i]

\* return all(results) if results else False  /  any(results) if ...
combine(results, mode) ==
    IF mode = "AND"
    THEN (IF Len(results) > 0 THEN py_all(results) ELSE FALSE)
    ELSE (IF Len(results) > 0 THEN py_any(results) ELSE FALSE)

\* what each endpoint returns for a row when no filter is active
no_filter_download_passthrough == TRUE    \* mutant: include-all
no_filter_download == FALSE
no_filter_count == TRUE

filter_network_input_row_passes(row, swiss, ppb3, sea, sea_pval, mode) ==
    IF ~(swiss_active(swiss) \/ ppb3_active(ppb3) \/ sea_active(sea, sea_pval))
    THEN no_filter_download
    ELSE combine(active_results(row, swiss, ppb3, sea, sea_pval), mode)

get_filter_count_row_passes(row, swiss, ppb3, sea, sea_pval, mode) ==
    IF ~(swiss_active(swiss) \/ ppb3_active(ppb3) \/ sea_active(sea, sea_pval))
    THEN no_filter_count
    ELSE combine(active_results(row, swiss, ppb3, sea, sea_pval), mode)

\* df[df.apply(row_passes, axis=1)]
filtered_df(d, a) ==
    SelectSeq(d, LAMBDA row :
        filter_network_input_row_passes(row, a.swiss, a.ppb3, a.sea, a.sea_pval, a.mode))

filtered_count(d, a) ==
    Len(SelectSeq(d, LAMBDA row :
        get_filter_count_row_passes(row, a.swiss, a.ppb3, a.sea, a.sea_pval, a.mode)))

\* ------------------------------------------------------------------------
\* build_tcmnp_input.py: threshold filter and edge-list builder
\* ------------------------------------------------------------------------
\* pd.to_numeric(col, errors="coerce"): what is not a number becomes nan
to_numeric(v) == IF v = DASH THEN NaN ELSE v

\* the cutoffs main applies, from the parsed arguments (lines 60-89)
applied_swiss(a) == IF a.has_min_prob THEN a.min_prob ELSE a.swiss
applied_ppb3(a) == IF a.has_min_prob THEN a.min_prob ELSE SCORE_08
applied_sea_tc(a) == IF a.has_min_prob THEN a.min_prob ELSE SCORE_04
applied_sea_pval(a) == IF a.has_min_prob THEN PVAL_1E4 ELSE PVAL_1E5

\* the boolean mask of lines 91-105
tcmnp_sea_mask(row, sea_tc, sea_pval) ==
    row.Database = SEA
    /\ GT(to_numeric(row.Max_Tc), sea_tc)
    /\ LT(to_numeric(row.P_Value), sea_pval)

tcmnp_mask(row, swiss, ppb3, sea_tc, sea_pval) ==
    \/ (row.Database = SWISS /\ GE(to_numeric(row.Probability), swiss))
    \/ (row.Database = PPB3 /\ GE(to_numeric(row.Probability), ppb3))
    \/ tcmnp_sea_mask(row, sea_tc, sea_pval)

df_filtered(d, swiss, ppb3, sea_tc, sea_pval) ==
    SelectSeq(d, LAMBDA row : tcmnp_mask(row, swiss, ppb3, sea_tc, sea_pval))

\* Text cells: "" is the empty cell, which pandas reads as NaN.
TextOrder == <<"  ", " G1 ", "C1", "C2", "G1", "G2", "G2 ", "H1", "H2", "M1", "M2", "T1", "T2">>
TextOrd(s) == CHOOSE i \in 1..Len(TextOrder) : TextOrder[i] = s

\* str.strip() on the text cells the model uses: blanks only give "", padding
\* around a symbol is removed
str_strip(s) ==
    IF s = "  " THEN "" ELSE IF s = " G1 " THEN "G1" ELSE IF s = "G2 " THEN "G2"
    ELSE IF s = " C2 " THEN "C2" ELSE IF s = " NaN " THEN "NaN" ELSE s

\* gene_symbol.fillna("").astype(str).str.strip(); "" falls back to target_name
target_final_unstripped(row) ==
    IF row.Gene_Symbol = "" THEN row.Target_Name ELSE row.Gene_Symbol
target_final(row) ==
    IF str_strip(row.Gene_Symbol) = "" THEN row.Target_Name
    ELSE str_strip(row.Gene_Symbol)

edge_of(row) ==
    [herb |-> row.Plant, molecule |-> row.Phytochemical, target |-> target_final(row)]

\* .dropna(): a triple with a missing field is dropped
has_na(e) == e.herb = "" \/ e.molecule = "" \/ e.target = ""

EdgeLess(e, f) ==
    \/ TextOrd(e.herb) < TextOrd(f.herb)
    \/ (e.herb = f.herb /\ TextOrd(e.molecule) < TextOrd(f.molecule))
    \/ (e.herb = f.herb /\ e.molecule = f.molecule
        /\ TextOrd(e.target) < TextOrd(f.target))

\* .drop_duplicates(): keeps the first occurrence
drop_duplicates_kept(s) == s
RECURSIVE drop_duplicates(_)
drop_duplicates(s) ==
    IF s = <<>> THEN <<>>
    ELSE LET init == drop_duplicates(SubSeq(s, 1, Len(s) - 1))
             last == s[Len(s)]
         IN  IF \E i \in 1..Len(init) : init[i] = last THEN init
             ELSE Append(init, last)

\* .sort_values(["herb", "molecule", "target"])
insert_edge(e, s) ==
    LET k == Cardinality({j \in 1..Len(s) : ~EdgeLess(e, s[j])})
    IN  SubSeq(s, 1, k) \o <<e>> \o SubSeq(s, k + 1, Len(s))

RECURSIVE sort_edges(_)
sort_edges(s) ==
    IF s = <<>> THEN <<>>
    ELSE insert_edge(s[Len(s)], sort_edges(SubSeq(s, 1, Len(s) - 1)))

map_edges(s) == [i \in 1..Len(s) |-> edge_of(s[i])]

tcmnp_df(kept) ==
    sort_edges(drop_duplicates(SelectSeq(map_edges(kept), LAMBDA e : ~has_na(e))))

\* ------------------------------------------------------------------------
\* Requests against the persisted aggregate
\* ------------------------------------------------------------------------
Scores == 0..MaxScore
Pvals == 0..PVAL_ONE
AppArgs == [swiss : Scores, ppb3 : Scores, sea : Scores, sea_pval : Pvals,
            mode : {"AND", "OR"}]
CliArgs == [swiss : Scores, ppb3 : Scores, sea : Scores,
            has_min_prob : BOOLEAN, min_prob : Scores, dry_run : BOOLEAN]

Idle == [op |-> "idle", args |-> <<>>, rows |-> <<>>, count |-> 0, total |-> 0,
         applied |-> <<>>, report |-> <<>>, error |-> ""]

\* neither 3_tcmnp_input/ nor tcm_input.csv exists
NoTcmFile == [dir |-> FALSE, exists |-> FALSE, rows |-> <<>>]

\* GET /filter-network-input
FilterNetworkInput ==
    /\ resp.op = "idle"
    /\ \E a \in AppArgs :
         resp' = IF ~df_exists
                 THEN [Idle EXCEPT !.op = "download", !.args = a,
                                   !.error = "No prediction results found"]
                 ELSE [Idle EXCEPT !.op = "download", !.args = a,
                                   !.rows = filtered_df(df, a),
                                   !.count = Len(filtered_df(df, a)),
                                   !.total = Len(df)]
    /\ UNCHANGED <<df_exists, df, tcm_file, rvars, pvars, svars, cvars, tvars>>

\* GET /filter-count
GetFilterCount ==
    /\ resp.op = "idle"
    /\ \E a \in AppArgs :
         resp' = IF ~df_exists
                 THEN [Idle EXCEPT !.op = "count", !.args = a]
                 ELSE [Idle EXCEPT !.op = "count", !.args = a,
                                   !.count = filtered_count(df, a),
                                   !.total = Len(df)]
    /\ UNCHANGED <<df_exists, df, tcm_file, rvars, pvars, svars, cvars, tvars>>

\* if not INPUT_FILE.exists(): raise FileNotFoundError
input_missing_unchecked(exists) == FALSE
input_missing(exists) == ~exists

\* OUTPUT_DIR.mkdir(parents=True, exist_ok=True); tcmnp_df.to_csv(OUTPUT_FILE)
to_csv(edges) == [dir |-> TRUE, exists |-> TRUE, rows |-> edges]

\* build_tcmnp_input.py main() for the parsed arguments a
main_build(a) ==
    IF input_missing(df_exists)
    THEN /\ resp' = [Idle EXCEPT !.op = "build", !.args = a,
                                 !.error = "FileNotFoundError"]
         /\ UNCHANGED tcm_file
    ELSE LET kept == df_filtered(df, applied_swiss(a), applied_ppb3(a),
                                 applied_sea_tc(a), applied_sea_pval(a))
         IN  /\ resp' = [Idle EXCEPT !.op = "build", !.args = a,
                            !.rows = kept, !.count = Len(kept),
                            !.total = Len(df),
                            !.applied = <<applied_swiss(a), applied_ppb3(a),
                                          applied_sea_tc(a), applied_sea_pval(a)>>,
                            !.report = <<applied_swiss(a), applied_ppb3(a), a.sea>>]
             /\ tcm_file' = IF a.dry_run THEN tcm_file ELSE to_csv(tcmnp_df(kept))

BuildTcmnpInput ==
    /\ resp.op = "idle"
    /\ \E a \in CliArgs :
         /\ (~a.has_min_prob => a.min_prob = 0)
         /\ main_build(a)
    /\ UNCHANGED <<df_exists, df, rvars, pvars, svars, cvars, tvars>>

\* build_tcmnp_input.py run with --swiss and --dry-run only
EdgeArgs ==
    {a \in CliArgs : ~a.has_min_prob /\ a.min_prob = 0 /\ a.ppb3 = 0 /\ a.sea = 0}

BuildEdgeList ==
    /\ resp.op = "idle"
    /\ \E a \in EdgeArgs : main_build(a)
    /\ UNCHANGED <<df_exists, df, rvars, pvars, svars, cvars, tvars>>

\* the HTTP response is delivered and the handler's locals are gone; the
\* build script is run once, as the last stage on the aggregate, and exits
Respond ==
    /\ resp.op \in {"download", "count"}
    /\ resp' = Idle
    /\ UNCHANGED <<df_exists, df, tcm_file, rvars, pvars, svars, cvars, tvars>>

\* The aggregate as save_outputs persists it: one molecule, rows sorted by
\* (Database, Rank), Rank dense per Database, score columns by source.
MkRow(db, prob, pv, tc) ==
    [Phytochemical |-> "M1", Plant |-> "H1", SMILES |-> "C1", Database |-> db,
     Target_Name |-> "T1", Gene_Symbol |-> IF db = SWISS THEN "G1" ELSE "",
     Probability |-> prob, P_Value |-> pv, Max_Tc |-> tc, Rank |-> 0]

\* SEA rows carry every pair of numbers of the two grids; a missing or "-"
\* cell comes with the most favourable value in the other cell, so that the
\* missing cell decides.
SourceRows ==
    {MkRow(SWISS, p, NaN, NaN) : p \in Scores}
    \cup {MkRow(PPB3, p, NaN, NaN) : p \in Scores}
    \cup {MkRow(SEA, NaN, pv, tc) : pv \in Pvals, tc \in Scores}
    \cup {MkRow(SEA, NaN, pv, MaxScore) : pv \in {NaN, DASH}}
    \cup {MkRow(SEA, NaN, 0, tc) : tc \in {NaN, DASH}}

WithRank(s) ==
    [i \in 1..Len(s) |->
        [s[i] EXCEPT !.Rank =
            Cardinality({j \in 1..i : s[j].Database = s[i].Database})]]

\* Aggregates whose text cells vary: SwissTargetPrediction rows with a gene
\* symbol that is missing, blank, plain or padded and a target name that may
\* be missing, from one of two plants; PPB3 rows without a gene symbol.
EdgeRow(db, plant, gene, target, prob) ==
    [Phytochemical |-> "M1", Plant |-> plant, SMILES |-> "C1", Database |-> db,
     Target_Name |-> target, Gene_Symbol |-> gene,
     Probability |-> prob, P_Value |-> NaN, Max_Tc |-> NaN, Rank |-> 0]

EdgeRows ==
    {EdgeRow(SWISS, "H1", g, t, p) :
        g \in {"", "  ", "G1", " G1 "}, t \in {"T1", ""}, p \in {0, MaxScore}}
    \cup {EdgeRow(SWISS, "H2", g, "T1", MaxScore) : g \in {"G1", "G2 "}}
    \cup {EdgeRow(PPB3, "H1", "", t, MaxScore) : t \in {"T1", "T2"}}

EdgeAggregates ==
    {WithRank(s) : s \in {t \in SeqsUpTo(EdgeRows, MaxEdgeRows) :
        \A i \in 1..(Len(t) - 1) : DbOrd(t[i].Database) <= DbOrd(t[i + 1].Database)}}

Aggregates ==
    {WithRank(s) : s \in {t \in SeqsUpTo(SourceRows, MaxRows) :
        \A i \in 1..(Len(t) - 1) : DbOrd(t[i].Database) <= DbOrd(t[i + 1].Database)}}



\* ------------------------------------------------------------------------
\* Properties of the threshold filters
\* ------------------------------------------------------------------------
Downloaded == resp.op = "download" /\ resp.error = ""
Counted == resp.op = "count" /\ df_exists
Built == resp.op = "build" /\ resp.error = ""

Retained(i) == \E j \in 1..Len(resp.rows) : resp.rows[j] = df[i]

IsNumber(v) == v # NaN /\ v # DASH

\* the threshold of the record's own source is active
OwnActive(row, a) ==
    \/ (row.Database = SWISS /\ a.swiss > 0)
    \/ (row.Database = PPB3 /\ a.ppb3 > 0)
    \/ (row.Database = SEA /\ (a.sea > 0 \/ a.sea_pval < PVAL_ONE))

OtherActive(row, a) ==
    \/ (row.Database # SWISS /\ a.swiss > 0)
    \/ (row.Database # PPB3 /\ a.ppb3 > 0)
    \/ (row.Database # SEA /\ (a.sea > 0 \/ a.sea_pval < PVAL_ONE))

\* the predicate of the record's own source, on the numbers the filter reads
\* ("-" reads as probability 0, similarity 0, significance 999)
OwnPredicate(row, a) ==
    LET prob == IF row.Probability = DASH THEN 0 ELSE row.Probability
        tc == IF row.Max_Tc = DASH THEN 0 ELSE row.Max_Tc
        pv == IF row.P_Value = DASH THEN PVAL_999 ELSE row.P_Value
    IN  \/ (row.Database = SWISS /\ prob # NaN /\ prob >= a.swiss)
        \/ (row.Database = PPB3 /\ prob # NaN /\ prob >= a.ppb3)
        \/ (row.Database = SEA /\ tc # NaN /\ pv # NaN
            /\ tc >= a.sea /\ pv <= a.sea_pval)

\* C1 (as claimed): under match-all a record whose own source has an active
\* threshold is retained iff the predicate of its own source is true,
\* whatever the thresholds of the other sources are.
C1_MatchAllOwnSourceOnly ==
    (Downloaded /\ resp.args.mode = "AND") =>
        \A i \in 1..Len(df) :
            OwnActive(df[i], resp.args) =>
                (Retained(i) <=> OwnPredicate(df[i], resp.args))

\* C2: under match-any a record is retained iff the threshold of its own
\* source is active and that source's predicate is true for it.
C2_MatchAnyOwnSource ==
    (Downloaded /\ resp.args.mode = "OR") =>
        \A i \in 1..Len(df) :
            Retained(i) <=>
                (OwnActive(df[i], resp.args) /\ OwnPredicate(df[i], resp.args))

C2_Witness ==
    /\ Downloaded /\ resp.args.mode = "OR"
    /\ \E i \in 1..Len(df) :
         ~OwnActive(df[i], resp.args) /\ OtherActive(df[i], resp.args)
         /\ ~Retained(i) /\ df[i].Database = PPB3 /\ df[i].Probability = MaxScore

NoneActive(a) == a.swiss = 0 /\ a.ppb3 = 0 /\ a.sea = 0 /\ ~(a.sea_pval < PVAL_ONE)

\* C3: with zero active thresholds /filter-network-input retains no record,
\* in both combination modes.
C3_NoActiveRetainsNothing ==
    (Downloaded /\ NoneActive(resp.args)) => resp.rows = <<>>

C3_Witness ==
    Downloaded /\ NoneActive(resp.args) /\ Len(df) > 0 /\ resp.rows = <<>>

\* C4 (as claimed): the count of /filter-count equals the number of rows of
\* /filter-network-input for the same aggregate and the same parameters.
C4_CountEqualsDownload ==
    Counted => resp.count = Len(filtered_df(df, resp.args))

\* raising one cutoff of a request
Raised(a, field, v) ==
    CASE field = "swiss" -> [a EXCEPT !.swiss = v]
      [] field = "ppb3" -> [a EXCEPT !.ppb3 = v]
      [] field = "sea" -> [a EXCEPT !.sea = v]
      [] field = "sea_pval" -> [a EXCEPT !.sea_pval = v]
      [] field = "min_prob" -> [a EXCEPT !.min_prob = v]

Cutoff(a, field) ==
    CASE field = "swiss" -> a.swiss
      [] field = "ppb3" -> a.ppb3
      [] field = "sea" -> a.sea
      [] field = "sea_pval" -> a.sea_pval
      [] field = "min_prob" -> a.min_prob

\* a single cutoff is active when it is off its neutral default
CutoffActive(a, field) ==
    IF field = "sea_pval" THEN a.sea_pval < PVAL_ONE ELSE Cutoff(a, field) > 0

Range(field) == IF field = "sea_pval" THEN Pvals ELSE Scores

built_count(d, a) ==
    Len(df_filtered(d, applied_swiss(a), applied_ppb3(a),
                    applied_sea_tc(a), applied_sea_pval(a)))

\* C5 (as claimed): raising any single active cutoff, the significance cutoff
\* included, never increases the number of retained records.
C5_RaisingAnyCutoffNeverIncreases ==
    Downloaded =>
        \A field \in {"swiss", "ppb3", "sea", "sea_pval"} :
            \A v \in Range(field) :
                (CutoffActive(resp.args, field) /\ v > Cutoff(resp.args, field))
                    => Len(filtered_df(df, Raised(resp.args, field, v))) <= resp.count

\* C5 (amended): raising an active probability or similarity cutoff never
\* increases the retained count, and neither does lowering an active
\* significance cutoff; the same holds for the cutoffs of the edge builder.
C5_Monotone ==
    /\ Downloaded =>
        /\ \A field \in {"swiss", "ppb3", "sea"} : \A v \in Range(field) :
             (CutoffActive(resp.args, field) /\ v > Cutoff(resp.args, field))
                 => Len(filtered_df(df, Raised(resp.args, field, v))) <= resp.count
        /\ \A v \in Pvals :
             (CutoffActive(resp.args, "sea_pval") /\ v < resp.args.sea_pval)
                 => Len(filtered_df(df, Raised(resp.args, "sea_pval", v))) <= resp.count
    /\ Built =>
        \A field \in {"swiss", "ppb3", "sea", "min_prob"} : \A v \in Scores :
             ((field = "min_prob" => resp.args.has_min_prob)
              /\ v > Cutoff(resp.args, field))
                 => built_count(df, Raised(resp.args, field, v)) <= resp.count

C5_Witness ==
    /\ Downloaded /\ resp.count = 1
    /\ CutoffActive(resp.args, "swiss")
    /\ \E v \in Scores :
         /\ v > resp.args.swiss
         /\ Len(filtered_df(df, Raised(resp.args, "swiss", v))) = 0

\* C6: with only the SEA thresholds active and match-all, a SEA record is
\* retained when its similarity is above the similarity cutoff and its
\* significance below the significance cutoff, and excluded when its
\* similarity is below the cutoff or its significance above it; the edge
\* builder decides its SEA records the same way.
C6_SeaBothConditions ==
    /\ (Downloaded /\ resp.args.mode = "AND" /\ resp.args.swiss = 0
        /\ resp.args.ppb3 = 0 /\ sea_active(resp.args.sea, resp.args.sea_pval)) =>
          \A i \in 1..Len(df) :
            (df[i].Database = SEA /\ IsNumber(df[i].Max_Tc) /\ IsNumber(df[i].P_Value)) =>
              /\ (df[i].Max_Tc > resp.args.sea /\ df[i].P_Value < resp.args.sea_pval)
                    => Retained(i)
              /\ (df[i].Max_Tc < resp.args.sea \/ df[i].P_Value > resp.args.sea_pval)
                    => ~Retained(i)
    /\ Built =>
          \A i \in 1..Len(df) :
            (df[i].Database = SEA /\ IsNumber(df[i].Max_Tc) /\ IsNumber(df[i].P_Value)) =>
              /\ (df[i].Max_Tc > applied_sea_tc(resp.args)
                  /\ df[i].P_Value < applied_sea_pval(resp.args)) => Retained(i)
              /\ (df[i].Max_Tc < applied_sea_tc(resp.args)
                  \/ df[i].P_Value > applied_sea_pval(resp.args)) => ~Retained(i)

C6_Witness ==
    /\ Downloaded /\ resp.args.mode = "AND"
    /\ resp.args.swiss = 0 /\ resp.args.ppb3 = 0
    /\ resp.args.sea > 0 /\ resp.args.sea_pval < PVAL_ONE
    /\ \E i \in 1..Len(df) :
         /\ df[i].Database = SEA
         /\ IsNumber(df[i].Max_Tc) /\ IsNumber(df[i].P_Value)
         /\ df[i].Max_Tc > resp.args.sea /\ df[i].P_Value < resp.args.sea_pval
         /\ Retained(i)

\* C13 (as claimed): when the threshold filter retains no record, the edge
\* builder ends without error, reports zero retained rows and leaves the
\* edge-list file absent (it neither creates nor overwrites it).
C13_EmptyResultWritesNoFile ==
    (Built /\ resp.count = 0) => (resp.error = "" /\ tcm_file = NoTcmFile)

\* C15: without the aggregate file the edge builder fails with
\* FileNotFoundError, has filtered nothing and reported nothing, and neither
\* the output directory nor the edge-list file has been created.
C15_MissingAggregateFailsFirst ==
    (resp.op = "build" /\ ~df_exists) =>
        /\ resp.error = "FileNotFoundError"
        /\ resp.rows = <<>> /\ resp.applied = <<>> /\ resp.report = <<>>
        /\ tcm_file = NoTcmFile

C15_Witness ==
    /\ resp.op = "build" /\ ~df_exists /\ ~resp.args.dry_run
    /\ resp.error = "FileNotFoundError"

\* C18 (as claimed): without --min-prob the cutoffs of the filter are the
\* values of --swiss, --ppb3 and --sea, and the reported thresholds are the
\* applied ones.
C18_AppliedCutoffsAreUserSupplied ==
    (Built /\ ~resp.args.has_min_prob) =>
        /\ resp.applied[1] = resp.args.swiss
        /\ resp.applied[2] = resp.args.ppb3
        /\ resp.applied[3] = resp.args.sea
        /\ resp.report = <<resp.applied[1], resp.applied[2], resp.applied[3]>>

\* C16: no two rows of a written edge list agree in herb, molecule and target.
C16_NoDuplicateEdges ==
    tcm_file.exists =>
        \A i, j \in 1..Len(tcm_file.rows) :
            tcm_file.rows[i] = tcm_file.rows[j] => i = j

SameTriple(r, q) ==
    /\ r.Plant = q.Plant /\ r.Phytochemical = q.Phytochemical
    /\ r.Target_Name = q.Target_Name /\ r.Gene_Symbol = q.Gene_Symbol

C16_Witness ==
    /\ Built /\ tcm_file.exists
    /\ Len(tcm_file.rows) = 1
    /\ Len(resp.rows) >= 2
    /\ \A i \in 1..Len(resp.rows) :
         resp.rows[i].Gene_Symbol = "G1" /\ SameTriple(resp.rows[i], resp.rows[1])

\* the gene symbol cell, read as text, is the symbol t with or without blanks
\* around it
IsSymbol(cell, t) == cell \in {t, " " \o t \o " ", t \o " "}
IsBlank(cell) == cell \in {"", "  "}
Symbols == {"G1", "G2"}

\* the target the claim gives the record r is t
ClaimedTarget(r, t) ==
    \/ (t \in Symbols /\ IsSymbol(r.Gene_Symbol, t))
    \/ (IsBlank(r.Gene_Symbol) /\ t = r.Target_Name)

\* C17: every retained record whose herb, molecule and target are present
\* has the edge whose target is its trimmed gene symbol if that is non-empty
\* and its target name otherwise, and the edge list has no other edge.
C17_TargetResolution ==
    (Built /\ tcm_file.exists) =>
        /\ \A i \in 1..Len(resp.rows) : \A t \in Symbols \cup {"T1", "T2"} :
              ClaimedTarget(resp.rows[i], t) =>
                 \E k \in 1..Len(tcm_file.rows) :
                     tcm_file.rows[k] = [herb |-> resp.rows[i].Plant,
                                         molecule |-> resp.rows[i].Phytochemical,
                                         target |-> t]
        /\ \A k \in 1..Len(tcm_file.rows) : \E i \in 1..Len(resp.rows) :
              /\ ClaimedTarget(resp.rows[i], tcm_file.rows[k].target)
              /\ tcm_file.rows[k].herb = resp.rows[i].Plant
              /\ tcm_file.rows[k].molecule = resp.rows[i].Phytochemical

C17_Witness ==
    /\ Built /\ tcm_file.exists
    /\ Len(resp.rows) = 2
    /\ resp.rows[1].Gene_Symbol = "  " /\ resp.rows[1].Target_Name = "T1"
    /\ resp.rows[2].Gene_Symbol = " G1 "
    /\ Len(tcm_file.rows) = 2
    /\ tcm_file.rows[1].target = "G1" /\ tcm_file.rows[2].target = "T1"

\* ------------------------------------------------------------------------
\* run_target_prediction.py: adapters' rows, finalize_rank, save_outputs
\* ------------------------------------------------------------------------
Mol(name, plant, smiles) ==
    [Phytochemical |-> name, Plant |-> plant, SMILES |-> smiles]

\* The input file: one compound found in two plants, then compounds of
\* another name that sorts before it.  compounds is what
\* read_phytochemical_csv returns for --max-compounds = n.
InputRow(k) ==
    IF k = 1 THEN Mol("M2", "H1", "C1")
    ELSE IF k = 2 THEN Mol("M2", "H2", "C1")
    ELSE Mol("M1", "H1", "C2")

CompoundLists == {[k \in 1..n |-> InputRow(k)] : n \in 1..MaxCompounds}

OutRow(meta, db, rank) ==
    [Phytochemical |-> meta.Phytochemical, Plant |-> meta.Plant,
     SMILES |-> meta.SMILES, Database |-> db,
     Target_Name |-> "T1", Gene_Symbol |-> IF db = SWISS THEN "G1" ELSE "",
     Probability |-> IF db = SEA THEN NaN ELSE 1,
     P_Value |-> IF db = SEA THEN 1 ELSE NaN,
     Max_Tc |-> IF db = SEA THEN 1 ELSE NaN,
     Rank |-> rank]

\* A results table is the sequence of its body rows; TRUE marks a row the
\* parser keeps (enough cells, target and accession present / human key).
Tables == UNION {[1..k -> BOOLEAN] : k \in 0..MaxTable}

kept_indices(table) ==
    SelectSeq([k \in 1..Len(table) |-> k], LAMBDA k : table[k])

\* "Rank": i  with  for i, tr in enumerate(trs[1:], start=1)
swisstarget_parse_table(table, meta) ==
    LET kept == kept_indices(table)
    IN  [k \in 1..Len(kept) |-> OutRow(meta, SWISS, kept[k])]

\* rank += 1 only for the rows that pass is_human_target_uniprot
sea_parse_table(table, meta) ==
    LET kept == kept_indices(table)
    IN  [k \in 1..Len(kept) |-> OutRow(meta, SEA, k)]

\* "Rank": ""  (0 stands for the empty rank)
run_ppb3_for_compound(n, meta) ==
    [k \in 1..n |-> OutRow(meta, PPB3, 0)]

SameGroup(a, b) ==
    a.Phytochemical = b.Phytochemical /\ a.SMILES = b.SMILES /\ a.Database = b.Database

\* df.groupby(["Phytochemical", "SMILES", "Database"]).cumcount() + 1
finalize_rank(d) ==
    [k \in 1..Len(d) |->
        [d[k] EXCEPT !.Rank = Cardinality({j \in 1..k : SameGroup(d[j], d[k])})]]

RowLess(a, b) ==
    \/ TextOrd(a.Phytochemical) < TextOrd(b.Phytochemical)
    \/ (a.Phytochemical = b.Phytochemical /\ DbOrd(a.Database) < DbOrd(b.Database))
    \/ (a.Phytochemical = b.Phytochemical /\ a.Database = b.Database /\ a.Rank < b.Rank)

\* df.sort_values(["Phytochemical", "Database", "Rank"]): ties keep their order
\* a row goes behind every row of the sorted part that is not greater
insert_row(r, d) ==
    LET k == Cardinality({j \in 1..Len(d) : ~RowLess(r, d[j])})
    IN  SubSeq(d, 1, k) \o <<r>> \o SubSeq(d, k + 1, Len(d))

RECURSIVE sort_rows(_)
sort_rows(d) ==
    IF d = <<>> THEN <<>>
    ELSE insert_row(d[Len(d)], sort_rows(SubSeq(d, 1, Len(d) - 1)))

\* the "metadata" object of the JSON document: its keys, the databases list
\* and the sources that have a human_filtering rule description
NoMetadata == [keys |-> {}, databases |-> <<>>, human_filtering |-> {}]
json_metadata(d) ==
    [keys |-> {"timestamp", "input", "databases", "human_filtering"},
     databases |-> <<SWISS, SEA, PPB3>>,
     human_filtering |-> {SWISS, SEA, PPB3}]

NoFiles == [dir |-> FALSE, written |-> FALSE, combined |-> <<>>, sources |-> {},
            by_db |-> [db \in Databases |-> <<>>], json_rows |-> <<>>,
            metadata |-> NoMetadata]

\* outdir.mkdir(parents=True, exist_ok=True) comes first, then the empty check
save_outputs(rws, files) ==
    IF rws = <<>> THEN [files EXCEPT !.dir = TRUE]
    ELSE LET d == sort_rows(finalize_rank(rws))
         IN  [dir |-> TRUE, written |-> TRUE,
              combined |-> d,
              sources |-> files.sources \cup {d[k].Database : k \in 1..Len(d)},
              by_db |-> [db \in Databases |->
                            IF \E k \in 1..Len(d) : d[k].Database = db
                            THEN SelectSeq(d, LAMBDA r : r.Database = db)
                            ELSE files.by_db[db]],
              json_rows |-> d,
              metadata |-> json_metadata(d)]

\* ------------------------------------------------------------------------
\* run_target_prediction.py: main()
\* ------------------------------------------------------------------------
\* what follows a source block in the loop body
advance(stage, idx, n) ==
    IF stage = "swiss" THEN [pc |-> "sea", i |-> idx]
    ELSE IF stage = "sea" THEN [pc |-> "ppb3", i |-> idx]
    ELSE IF idx < n THEN [pc |-> "swiss", i |-> idx + 1]
    ELSE [pc |-> "finally", i |-> idx]

\* mutant of on_exception: the exception leaves the loop
on_exception_leaves_loop(stage, idx, n) == [pc |-> "finally", i |-> idx]
\* except Exception as e: print(...)  -- execution goes on after the block
on_exception(stage, idx, n) == advance(stage, idx, n)

SeenAfterRows(n) ==
    IF n = 0 THEN seen
    ELSE IF seen = 0 THEN 1 ELSE IF seen = 2 THEN 3 ELSE seen
SeenAfterFailure == IF seen = 1 THEN 2 ELSE seen

SetupDriver ==
    /\ pc = "start"
    /\ driver' = "open"
    /\ pc' = "swiss"
    /\ cur' = 1
    /\ UNCHANGED <<compounds, skip, all_rows, out, last_query, seen, fvars, pvars, svars, cvars, tvars>>

SourceOk(stage, db, rws) ==
    /\ all_rows' = all_rows \o rws
    /\ pc' = advance(stage, cur, Len(compounds)).pc
    /\ cur' = advance(stage, cur, Len(compounds)).i
    /\ last_query' = "ok"
    /\ seen' = SeenAfterRows(Len(rws))
    /\ UNCHANGED <<compounds, skip, driver, out, fvars, pvars, svars, tvars>>

SourceFailed(stage, db) ==
    /\ pc' = on_exception(stage, cur, Len(compounds)).pc
    /\ cur' = on_exception(stage, cur, Len(compounds)).i
    /\ last_query' = "failed"
    /\ seen' = SeenAfterFailure
    /\ UNCHANGED <<compounds, skip, all_rows, driver, out, fvars, pvars, svars, tvars>>

SourceSkipped(stage, db) ==
    /\ pc' = advance(stage, cur, Len(compounds)).pc
    /\ cur' = advance(stage, cur, Len(compounds)).i
    /\ last_query' = "skipped"
    /\ UNCHANGED <<compounds, skip, all_rows, driver, out, seen, fvars, pvars, svars, tvars>>

SwissOk ==
    /\ pc = "swiss" /\ ~skip.swiss
    /\ \E table \in Tables :
         SourceOk("swiss", SWISS, swisstarget_parse_table(table, compounds[cur]))
    /\ UNCHANGED cvars
SwissFailed ==
    pc = "swiss" /\ ~skip.swiss /\ SourceFailed("swiss", SWISS) /\ UNCHANGED cvars
SwissSkipped ==
    pc = "swiss" /\ skip.swiss /\ SourceSkipped("swiss", SWISS) /\ UNCHANGED cvars

SeaOk ==
    /\ pc = "sea" /\ ~skip.sea
    /\ \E table \in Tables :
         SourceOk("sea", SEA, sea_parse_table(table, compounds[cur]))
    /\ UNCHANGED cvars
SeaFailed ==
    pc = "sea" /\ ~skip.sea /\ SourceFailed("sea", SEA) /\ UNCHANGED cvars
SeaSkipped ==
    pc = "sea" /\ skip.sea /\ SourceSkipped("sea", SEA) /\ UNCHANGED cvars

Ppb3Ok ==
    /\ pc = "ppb3" /\ ~skip.ppb3
    /\ \E n \in 0..MaxTable :
         SourceOk("ppb3", PPB3, run_ppb3_for_compound(n, compounds[cur]))
    /\ UNCHANGED cvars
Ppb3Failed ==
    pc = "ppb3" /\ ~skip.ppb3 /\ SourceFailed("ppb3", PPB3) /\ UNCHANGED cvars
Ppb3Skipped ==
    pc = "ppb3" /\ skip.ppb3 /\ SourceSkipped("ppb3", PPB3) /\ UNCHANGED cvars

\* finally: driver.quit()
Finally ==
    /\ pc = "finally"
    /\ driver' = "quit"
    /\ pc' = "save"
    /\ last_query' = "none"
    /\ UNCHANGED <<compounds, skip, cur, all_rows, out, seen, fvars, pvars, svars, cvars, tvars>>

SaveOutputs ==
    /\ pc = "save"
    /\ out' = save_outputs(all_rows, out)
    /\ pc' = "done"
    /\ UNCHANGED <<compounds, skip, cur, all_rows, driver, last_query, seen, fvars, pvars, svars, cvars, tvars>>

\* ------------------------------------------------------------------------
\* run_target_prediction.py: PPB3 adapter, one compound
\* ------------------------------------------------------------------------
PPB3_PREDICTION_METHODS ==
    <<"DNN(ECFP4+MHFP6)", "DNN(ECFP4)", "DNN(RDKit)", "DNN(Layered)",
      "DNN(MHFP6)", "DNN(ECFP6)", "DNN(AtomPair)", "Consensus">>
PPB3_MAX_RETRIES == 3

\* What requests.post can produce: it raises (timeout, connection),
\* raise_for_status raises, or a page arrives.  A page has a resultsTable or
\* not; TRUE marks a table row whose organism passes is_homo_sapiens.
NoResponse == [kind |-> "none", table |-> FALSE, human |-> <<>>]
Responses ==
    {[kind |-> k, table |-> FALSE, human |-> <<>>] : k \in {"timeout", "http_error"}}
    \cup {[kind |-> "page", table |-> FALSE, human |-> <<>>]}
    \cup {[kind |-> "page", table |-> TRUE, human |-> h] :
            h \in UNION {[1..k -> BOOLEAN] : k \in 0..MaxPageRows}}

ppb3_extract_targets_from_page(page) ==
    IF ~HAS_BS4 THEN <<>>
    ELSE IF ~page.table THEN <<>>
    ELSE LET kept == SelectSeq(page.human, LAMBDA h : h)
         IN  [k \in 1..Len(kept) |->
                [Target_Name |-> "T1", Probability |-> 1, Organism |-> "Homo sapiens"]]

\* mutant of retries_exhausted: one attempt too many
retries_exhausted_late(r) == r > PPB3_MAX_RETRIES
\* if retry >= PPB3_MAX_RETRIES: return []
retries_exhausted(r) == r >= PPB3_MAX_RETRIES

\* mutant of attempt_raises: an empty result is retried as well
attempt_raises_or_empty(r) ==
    r.kind \in {"timeout", "http_error"}
    \/ (r.kind = "page" /\ ppb3_extract_targets_from_page(r) = <<>>)
\* the try block of ppb3_submit_smiles_for_method ends in the except clause
attempt_raises(r) == r.kind \in {"timeout", "http_error"}

\* time.sleep(2 * (retry + 1))
backoff(r) == 2 * (r + 1)

\* entry of ppb3_submit_smiles_for_method(smiles, method, retry)
Submit ==
    /\ ppc = "call"
    /\ IF retries_exhausted(retry)
       THEN targets' = <<>> /\ ppc' = "ret"
       ELSE targets' = targets /\ ppc' = "post"
    /\ UNCHANGED <<HAS_BS4, method_ix, retry, requests, slept, response, ppb3_rows, fvars, rvars, svars, cvars, tvars>>

PostReturns ==
    /\ ppc = "post"
    /\ \E r \in Responses :
         /\ ~attempt_raises(r)
         /\ response' = r
         /\ targets' = ppb3_extract_targets_from_page(r)
    /\ requests' = requests + 1
    /\ ppc' = "ret"
    /\ UNCHANGED <<HAS_BS4, method_ix, retry, slept, ppb3_rows, fvars, rvars, svars, cvars, tvars>>

PostRaises ==
    /\ ppc = "post"
    /\ \E r \in Responses :
         /\ attempt_raises(r)
         /\ response' = r
    /\ requests' = requests + 1
    /\ ppc' = "except"
    /\ UNCHANGED <<HAS_BS4, method_ix, retry, slept, targets, ppb3_rows, fvars, rvars, svars, cvars, tvars>>

\* except Exception: sleep, then the recursive call with retry + 1
Backoff ==
    /\ ppc = "except"
    /\ slept' = Append(slept, backoff(retry))
    /\ retry' = retry + 1
    /\ ppc' = "call"
    /\ UNCHANGED <<HAS_BS4, method_ix, requests, response, targets, ppb3_rows, fvars, rvars, svars, cvars, tvars>>

\* back in run_ppb3_for_compound: rows.append for each target, next method
Collect ==
    /\ ppc = "ret"
    /\ ppb3_rows' = ppb3_rows \o [k \in 1..Len(targets) |->
                          [Target_Class |-> PPB3_PREDICTION_METHODS[method_ix],
                           Target_Name |-> targets[k].Target_Name,
                           Probability |-> targets[k].Probability,
                           Target_Key |-> targets[k].Organism]]
    /\ IF method_ix < Len(PPB3_PREDICTION_METHODS)
       THEN /\ method_ix' = method_ix + 1
            /\ retry' = 0 /\ requests' = 0 /\ slept' = <<>>
            /\ response' = NoResponse /\ targets' = <<>>
            /\ ppc' = "call"
       ELSE /\ ppc' = "done"
            /\ UNCHANGED <<method_ix, retry, requests, slept, response, targets>>
    /\ UNCHANGED <<HAS_BS4, fvars, rvars, svars, cvars, tvars>>

\* ------------------------------------------------------------------------
\* run_target_prediction.py: the human filters on the raw cell texts
\* ------------------------------------------------------------------------
\* A cell text is the sequence of its characters.
UpperCase == <<"A", "B", "C", "D", "E", "F", "G", "H", "I", "J", "K", "L", "M", "N", "O", "P", "Q", "R", "S", "T", "U", "V", "W", "X", "Y", "Z">>
LowerCase == <<"a", "b", "c", "d", "e", "f", "g", "h", "i", "j", "k", "l", "m", "n", "o", "p", "q", "r", "s", "t", "u", "v", "w", "x", "y", "z">>

IsUpperChar(c) == \E k \in 1..Len(UpperCase) : UpperCase[k] = c
IsLowerChar(c) == \E k \in 1..Len(LowerCase) : LowerCase[k] = c
upper_char(c) ==
    IF IsLowerChar(c) THEN UpperCase[CHOOSE k \in 1..Len(LowerCase) : LowerCase[k] = c]
    ELSE c
lower_char(c) ==
    IF IsUpperChar(c) THEN LowerCase[CHOOSE k \in 1..Len(UpperCase) : UpperCase[k] = c]
    ELSE c

\* str.upper(), str.lower()
text_upper(t) == [k \in 1..Len(t) |-> upper_char(t[k])]
text_lower(t) == [k \in 1..Len(t) |-> lower_char(t[k])]

\* str.strip()
text_strip(t) ==
    LET inked == {k \in 1..Len(t) : t[k] # " "}
    IN  IF inked = {} THEN <<>>
        ELSE SubSeq(t, CHOOSE k \in inked : \A j \in inked : k <= j,
                       CHOOSE k \in inked : \A j \in inked : k >= j)

\* str.endswith(suffix), suffix in str
endswith(t, suffix) ==
    Len(t) >= Len(suffix) /\ SubSeq(t, Len(t) - Len(suffix) + 1, Len(t)) = suffix
contains(t, part) ==
    \E k \in 0..(Len(t) - Len(part)) : SubSeq(t, k + 1, k + Len(part)) = part

HUMAN_SUFFIX == <<"_", "H", "U", "M", "A", "N">>
HOMO_SAPIENS == <<"h", "o", "m", "o", " ", "s", "a", "p", "i", "e", "n", "s">>
H_SAPIENS == <<"h", ".", " ", "s", "a", "p", "i", "e", "n", "s">>

\* mutant of is_human_target_uniprot: the suffix is compared as written
is_human_target_uniprot_cased(target_key) ==
    target_key # <<>> /\ endswith(target_key, HUMAN_SUFFIX)
\* not target_key -> False; target_key.upper().endswith("_HUMAN")
is_human_target_uniprot(target_key) ==
    target_key # <<>> /\ endswith(text_upper(target_key), HUMAN_SUFFIX)

\* not text -> False; t = text.strip().lower(); t is "homo sapiens" or
\* "h. sapiens" or contains "homo sapiens"
is_homo_sapiens(text) ==
    /\ text # <<>>
    /\ LET t == text_lower(text_strip(text))
       IN  t = HOMO_SAPIENS \/ t = H_SAPIENS \/ contains(t, HOMO_SAPIENS)

\* Target_Key cells of a SEA results table
TargetKeys ==
    {<<"P", "_", "H", "U", "M", "A", "N">>,
     <<"p", "_", "h", "u", "m", "a", "n">>,
     <<"P", "_", "H", "u", "m", "a", "n">>,
     <<"P", "_", "M", "O", "U", "S", "E">>,
     <<"P", "_", "H", "U", "M", "A", "N", "S">>,
     <<"_", "H", "U", "M", "A", "N">>,
     <<>>}

\* Organism cells of a PPB3 results table
Organisms ==
    {<<"H", "o", "m", "o", " ", "s", "a", "p", "i", "e", "n", "s">>,
     <<"H", "O", "M", "O", " ", "S", "A", "P", "I", "E", "N", "S">>,
     <<" ", "h", "o", "m", "o", " ", "s", "a", "p", "i", "e", "n", "s", " ">>,
     <<"H", ".", " ", "s", "a", "p", "i", "e", "n", "s">>,
     <<"H", "o", "m", "o", " ", "s", "a", "p", "i", "e", "n", "s", " ", "(", "h", "u", "m", "a", "n", ")">>,
     <<"M", "u", "s", " ", "m", "u", "s", "c", "u", "l", "u", "s">>,
     <<"H", ".", "s", "a", "p", "i", "e", "n", "s">>,
     <<>>,
     <<" ">>}

\* A body row of the SEA results table: its class holds "spanning info",
\* it has fewer cells than mapped columns, or it carries a Target_Key cell.
SeaTr(info, short, key) == [info |-> info, short |-> short, key |-> key]
SeaTrs ==
    {SeaTr(TRUE, FALSE, <<"P", "_", "H", "U", "M", "A", "N">>), SeaTr(FALSE, TRUE, <<>>)}
    \cup {SeaTr(FALSE, FALSE, key) : key \in TargetKeys}

\* the three "continue" of the loop over tbody_rows
sea_row_skipped(tr) ==
    tr.info \/ tr.short \/ ~is_human_target_uniprot(text_strip(tr.key))

\* mutant of consumes_rank: rank += 1 before the human check
consumes_rank_before_filter(tr) == ~tr.info /\ ~tr.short
\* rank += 1 is reached
consumes_rank(tr) == ~sea_row_skipped(tr)

\* sea_parse_table on the body rows: the emitted rows, with the index of the
\* table row each comes from
sea_parse_tbody(trs) ==
    LET kept == SelectSeq([k \in 1..Len(trs) |-> k], LAMBDA k : ~sea_row_skipped(trs[k]))
    IN  [n \in 1..Len(kept) |->
            [Database |-> SEA,
             Rank |-> Cardinality({j \in 1..kept[n] : consumes_rank(trs[j])}),
             Target_Key |-> text_strip(trs[kept[n]].key),
             UniProt_ID |-> text_strip(trs[kept[n]].key),
             tr |-> kept[n]]]

\* A body row of the PPB3 resultsTable: fewer than six cells, or target
\* name, probability text (DASH: not a number) and organism.
Ppb3Tr(short, name, prob, organism) ==
    [short |-> short, name |-> name, prob |-> prob, organism |-> organism]
Ppb3Trs ==
    {Ppb3Tr(TRUE, "", DASH, <<>>)}
    \cup {Ppb3Tr(FALSE, "T1", SCORE_08, o) : o \in Organisms}
    \cup {Ppb3Tr(FALSE, "", SCORE_08, <<"H", "o", "m", "o", " ", "s", "a", "p", "i", "e", "n", "s">>), Ppb3Tr(FALSE, "T1", DASH, <<"H", "o", "m", "o", " ", "s", "a", "p", "i", "e", "n", "s">>)}

\* a row is appended: six cells, human organism, float(prob_str) does not
\* raise, target name not empty
ppb3_row_kept(tr) ==
    /\ ~tr.short
    /\ is_homo_sapiens(text_strip(tr.organism))
    /\ tr.prob # DASH
    /\ tr.name # ""

\* ppb3_extract_targets_from_page on the rows of the page's table
ppb3_extract_trs(has_table, trs) ==
    IF ~HAS_BS4 THEN <<>>
    ELSE IF ~has_table THEN <<>>
    ELSE LET kept == SelectSeq([k \in 1..Len(trs) |-> k], LAMBDA k : ppb3_row_kept(trs[k]))
         IN  [n \in 1..Len(kept) |->
                [Target_Name |-> trs[kept[n]].name,
                 Probability |-> trs[kept[n]].prob,
                 Organism |-> text_strip(trs[kept[n]].organism),
                 tr |-> kept[n]]]

RawTables ==
    {[kind |-> "sea", table |-> TRUE, rows |-> t] : t \in SeqsUpTo(SeaTrs, MaxRawRows)}
    \cup {[kind |-> "ppb3", table |-> TRUE, rows |-> t] : t \in SeqsUpTo(Ppb3Trs, MaxRawRows)}
    \cup {[kind |-> "ppb3", table |-> FALSE, rows |-> <<>>]}

ParseSeaTable ==
    /\ raw_table.kind = "sea" /\ ~parsed.done
    /\ parsed' = [done |-> TRUE, rows |-> sea_parse_tbody(raw_table.rows)]
    /\ UNCHANGED <<raw_table, fvars, rvars, pvars, cvars, tvars>>

ParsePpb3Page ==
    /\ raw_table.kind = "ppb3" /\ ~parsed.done
    /\ parsed' = [done |-> TRUE,
                  rows |-> ppb3_extract_trs(raw_table.table, raw_table.rows)]
    /\ UNCHANGED <<raw_table, fvars, rvars, pvars, cvars, tvars>>

\* ------------------------------------------------------------------------
\* backend/app.py: the prediction stage of run_pipeline_background and /stop
\* ------------------------------------------------------------------------
\* GET /run-stream?stage=prediction while no pipeline runs: the thread sets
\* pipeline_running and starts run_target_prediction.py with Popen.
StartPrediction ==
    /\ ~pipeline_running /\ proc = "none"
    /\ pipeline_running' = TRUE
    /\ current_process' = "child"
    /\ proc' = "running"
    /\ pc' = "start"
    /\ UNCHANGED <<in_call, compounds, skip, cur, all_rows, driver, out, last_query, seen,
                   fvars, pvars, svars, tvars>>

ChildSetupDriver == proc = "running" /\ SetupDriver

\* the process enters the external calls of the current source block
ChildBeginsCall ==
    /\ proc = "running" /\ ~in_call
    /\ \/ (pc = "swiss" /\ ~skip.swiss)
       \/ (pc = "sea" /\ ~skip.sea)
       \/ (pc = "ppb3" /\ ~skip.ppb3)
    /\ in_call' = TRUE
    /\ UNCHANGED <<pipeline_running, current_process, proc, rvars, fvars, pvars, svars, tvars>>

\* the calls of the block return and its rows are collected
ChildCallReturns ==
    /\ proc = "running" /\ in_call
    /\ \/ (pc = "swiss" /\ \E table \in Tables :
              SourceOk("swiss", SWISS, swisstarget_parse_table(table, compounds[cur])))
       \/ (pc = "sea" /\ \E table \in Tables :
              SourceOk("sea", SEA, sea_parse_table(table, compounds[cur])))
       \/ (pc = "ppb3" /\ \E n \in 0..MaxTable :
              SourceOk("ppb3", PPB3, run_ppb3_for_compound(n, compounds[cur])))
    /\ in_call' = FALSE
    /\ UNCHANGED <<pipeline_running, current_process, proc>>

\* a call of the block raises an Exception, caught by the block's except
ChildCallRaises ==
    /\ proc = "running" /\ in_call
    /\ SourceFailed(pc, IF pc = "swiss" THEN SWISS ELSE IF pc = "sea" THEN SEA ELSE PPB3)
    /\ in_call' = FALSE
    /\ UNCHANGED <<pipeline_running, current_process, proc>>

ChildSkips ==
    /\ proc = "running"
    /\ (SwissSkipped \/ SeaSkipped \/ Ppb3Skipped)

\* something the except clauses do not catch leaves the loop; the finally
\* clause runs and the exception ends the process before save_outputs
ChildLoopRaises ==
    /\ proc = "running"
    /\ pc \in {"swiss", "sea", "ppb3"}
    /\ pc' = "raised"
    /\ driver' = "quit"
    /\ in_call' = FALSE
    /\ UNCHANGED <<pipeline_running, current_process, proc, compounds, skip, cur,
                   all_rows, out, last_query, seen, fvars, pvars, svars, tvars>>

ChildFinally == proc = "running" /\ Finally
ChildSaveOutputs == proc = "running" /\ SaveOutputs

\* the process ends by itself
ChildExits ==
    /\ proc = "running" /\ pc \in {"done", "raised"}
    /\ proc' = "exited"
    /\ UNCHANGED <<pipeline_running, current_process, in_call, rvars, fvars, pvars, svars, tvars>>

\* current_process.terminate(); wait(timeout=5), else kill(): the Python
\* process has no SIGTERM handler and ends where it stands
terminate(p) == IF p = "running" THEN "killed" ELSE p

\* GET /stop
StopPipeline ==
    /\ pipeline_running' = FALSE
    /\ IF current_process # "none"
       THEN proc' = terminate(proc) /\ current_process' = "none"
       ELSE UNCHANGED <<proc, current_process>>
    /\ UNCHANGED <<in_call, rvars, fvars, pvars, svars, tvars>>

\* the thread: stdout is closed, current_process.wait() returns,
\* current_process = None, queue.put("DONE"), pipeline_running = False
ThreadFinishes ==
    /\ proc \in {"exited", "killed"}
    /\ (pipeline_running \/ current_process # "none")
    /\ pipeline_running' = FALSE
    /\ current_process' = "none"
    /\ UNCHANGED <<proc, in_call, rvars, fvars, pvars, svars, tvars>>

\* ------------------------------------------------------------------------
\* Specifications
\* ------------------------------------------------------------------------
FilterOff ==
    /\ df_exists = FALSE /\ df = <<>>
    /\ tcm_file = NoTcmFile
    /\ resp = Idle

RunOff ==
    /\ compounds = <<>> /\ skip = [swiss |-> FALSE, sea |-> FALSE, ppb3 |-> FALSE]
    /\ pc = "off" /\ cur = 0 /\ all_rows = <<>> /\ driver = "none"
    /\ out = NoFiles /\ last_query = "none"
    /\ seen = 0

Ppb3Off ==
    /\ HAS_BS4 = TRUE /\ ppc = "off" /\ method_ix = 0 /\ retry = 0 /\ requests = 0
    /\ slept = <<>> /\ response = NoResponse /\ targets = <<>> /\ ppb3_rows = <<>>

SpeciesOff ==
    /\ raw_table = [kind |-> "none", table |-> FALSE, rows |-> <<>>]
    /\ parsed = [done |-> FALSE, rows |-> <<>>]

CancelOff ==
    /\ pipeline_running = FALSE /\ current_process = "none"
    /\ proc = "none" /\ in_call = FALSE
    /\ threads = <<>> /\ log_queue = <<>> /\ stream = <<>>

InitFilter ==
    /\ df_exists \in BOOLEAN
    /\ df \in (IF df_exists THEN Aggregates ELSE {<<>>})
    /\ tcm_file = NoTcmFile
    /\ resp = Idle
    /\ RunOff /\ Ppb3Off /\ SpeciesOff /\ CancelOff

NextFilter == FilterNetworkInput \/ GetFilterCount \/ BuildTcmnpInput \/ Respond

SpecFilter == InitFilter /\ [][NextFilter]_vars

InitEdges ==
    /\ df_exists = TRUE
    /\ df \in EdgeAggregates
    /\ tcm_file = NoTcmFile
    /\ resp = Idle
    /\ RunOff /\ Ppb3Off /\ SpeciesOff /\ CancelOff

NextEdges == BuildEdgeList

SpecEdges == InitEdges /\ [][NextEdges]_vars

InitRun ==
    /\ compounds \in CompoundLists
    /\ skip \in [swiss : BOOLEAN, sea : BOOLEAN, ppb3 : BOOLEAN]
    /\ pc = "start" /\ cur = 0 /\ all_rows = <<>> /\ driver = "none"
    /\ out = NoFiles /\ last_query = "none"
    /\ seen = 0
    /\ FilterOff /\ Ppb3Off /\ SpeciesOff /\ CancelOff

NextRun ==
    \/ SetupDriver
    \/ SwissOk \/ SwissFailed \/ SwissSkipped
    \/ SeaOk \/ SeaFailed \/ SeaSkipped
    \/ Ppb3Ok \/ Ppb3Failed \/ Ppb3Skipped
    \/ Finally \/ SaveOutputs

SpecRun == InitRun /\ [][NextRun]_vars

InitSpecies ==
    /\ raw_table \in RawTables
    /\ parsed = [done |-> FALSE, rows |-> <<>>]
    /\ FilterOff /\ RunOff /\ Ppb3Off /\ CancelOff

NextSpecies == ParseSeaTable \/ ParsePpb3Page

SpecSpecies == InitSpecies /\ [][NextSpecies]_vars

InitCancel ==
    /\ compounds \in CompoundLists
    /\ skip \in {[swiss |-> FALSE, sea |-> FALSE, ppb3 |-> FALSE],
                 [swiss |-> FALSE, sea |-> TRUE, ppb3 |-> FALSE]}
    /\ pc = "off" /\ cur = 0 /\ all_rows = <<>> /\ driver = "none"
    /\ out = NoFiles /\ last_query = "none"
    /\ seen = 0
    /\ CancelOff
    /\ FilterOff /\ Ppb3Off /\ SpeciesOff

NextCancel ==
    \/ StartPrediction
    \/ ChildSetupDriver \/ ChildBeginsCall \/ ChildCallReturns \/ ChildCallRaises
    \/ ChildSkips \/ ChildLoopRaises \/ ChildFinally \/ ChildSaveOutputs \/ ChildExits
    \/ StopPipeline \/ ThreadFinishes

SpecCancel == InitCancel /\ [][NextCancel]_vars

InitPpb3 ==
    /\ HAS_BS4 \in BOOLEAN
    /\ ppc = "call" /\ method_ix = 1 /\ retry = 0 /\ requests = 0
    /\ slept = <<>> /\ response = NoResponse /\ targets = <<>> /\ ppb3_rows = <<>>
    /\ FilterOff /\ RunOff /\ SpeciesOff /\ CancelOff

NextPpb3 == Submit \/ PostReturns \/ PostRaises \/ Backoff \/ Collect

SpecPpb3 == InitPpb3 /\ [][NextPpb3]_vars

\* each step of the adapter is sequential code, and every request is capped
\* by PPB3_TIMEOUT, so a step that can be taken is taken
FairSpecPpb3 == InitPpb3 /\ [][NextPpb3]_vars /\ WF_vars(NextPpb3)

\* ------------------------------------------------------------------------
\* Properties of the run loop and of the persisted aggregate
\* ------------------------------------------------------------------------
Persisted == pc = "done" /\ out.written

\* a molecule is one input row: name, plant and structure
SameMolecule(a, b) ==
    a.Phytochemical = b.Phytochemical /\ a.Plant = b.Plant /\ a.SMILES = b.SMILES

GroupOf(d, k) ==
    {j \in 1..Len(d) : SameMolecule(d[j], d[k]) /\ d[j].Database = d[k].Database}

\* C7 (as claimed): in the persisted aggregate the Rank values of every
\* (molecule, source) group are exactly 1..k, each used once, k the group size.
C7_DenseRankPerMoleculeSource ==
    Persisted =>
        \A k \in 1..Len(out.combined) :
            LET g == GroupOf(out.combined, k)
            IN  /\ {out.combined[j].Rank : j \in g} = 1..Cardinality(g)
                /\ \A j1, j2 \in g :
                     out.combined[j1].Rank = out.combined[j2].Rank => j1 = j2

Strip(r) == [r EXCEPT !.Rank = 0]
Occurrences(d, r) == Cardinality({k \in 1..Len(d) : Strip(d[k]) = Strip(r)})
SameRows(d, e) ==
    /\ Len(d) = Len(e)
    /\ \A k \in 1..Len(d) : Occurrences(d, d[k]) = Occurrences(e, d[k])

SourceStage == pc \in {"swiss", "sea", "ppb3"}

\* the position after the current source block, whatever its outcome
PositionAfter ==
    IF pc = "swiss" THEN <<"sea", cur>>
    ELSE IF pc = "sea" THEN <<"ppb3", cur>>
    ELSE IF cur < Len(compounds) THEN <<"swiss", cur + 1>>
    ELSE <<"finally", cur>>

StageDb == IF pc = "swiss" THEN SWISS ELSE IF pc = "sea" THEN SEA ELSE PPB3

\* C8: a failed source query adds no row and the run goes on with the next
\* source or molecule; a successful one appends its rows after those already
\* collected; everything collected is in the persisted aggregate.
C8_FailureIsolation ==
    [][ /\ (SourceStage /\ last_query' = "failed") =>
              (all_rows' = all_rows /\ <<pc', cur'>> = PositionAfter)
        /\ (SourceStage /\ last_query' = "ok") =>
              /\ Len(all_rows') >= Len(all_rows)
              /\ SubSeq(all_rows', 1, Len(all_rows)) = all_rows
              /\ \A k \in (Len(all_rows) + 1)..Len(all_rows') :
                     /\ all_rows'[k].Database = StageDb
                     /\ SameMolecule(all_rows'[k], compounds[cur])
              /\ <<pc', cur'>> = PositionAfter
        /\ (pc = "save" /\ pc' = "done") => SameRows(out'.combined, all_rows)
      ]_vars

C8_Witness ==
    /\ Persisted /\ seen = 3
    /\ Len(out.combined) >= 2
    /\ SameRows(out.combined, all_rows)

\* C14 (as claimed): when no row was collected, save_outputs changes nothing
\* in the filesystem: no output directory, no combined file, no per-source
\* file, no JSON file.
C14_EmptyMergeWritesNothing ==
    (pc = "done" /\ all_rows = <<>>) => out = NoFiles

\* ------------------------------------------------------------------------
\* Properties of the PPB3 adapter
\* ------------------------------------------------------------------------
C9_Safety ==
    /\ requests <= 3
    /\ Len(slept) <= requests
    /\ \A k \in 1..Len(slept) : slept[k] = 2 * k
    /\ (ppc \in {"call", "post"} => Len(slept) = requests)
    /\ ((ppc = "ret" /\ Len(slept) = 3) => (requests = 3 /\ targets = <<>>))

\* C9: per method at most 3 requests are issued, the k-th failed attempt is
\* followed by a wait of 2*k seconds, three failed attempts return an empty
\* result, and every call returns.
C9_BoundedRetry ==
    /\ []C9_Safety
    /\ ((ppc = "call" /\ retry = 0) ~> (ppc = "ret"))

C9_Witness ==
    /\ ppc = "ret" /\ requests = 3 /\ slept = <<2, 4, 6>> /\ targets = <<>>
    /\ response.kind \in {"timeout", "http_error"}

AttemptRaised(r) == r.kind \in {"timeout", "http_error"}
WellFormedEmpty(r) ==
    r.kind = "page"
    /\ (~HAS_BS4 \/ ~r.table \/ \A k \in 1..Len(r.human) : ~r.human[k])

\* C10: a further request is issued only after an attempt that raised; a
\* well-formed response with zero rows is returned as the empty result
\* without another request (after exactly one request when it is the first).
C10_RetryOnlyOnException ==
    /\ ((ppc = "post" /\ requests > 0) => AttemptRaised(response))
    /\ (ppc = "except" => AttemptRaised(response))
    /\ ((ppc = "ret" /\ WellFormedEmpty(response)) =>
            /\ targets = <<>>
            /\ requests = Len(slept) + 1
            /\ (retry = 0 => requests = 1))

C10_Witness ==
    /\ ppc = "ret" /\ HAS_BS4 /\ response.kind = "page" /\ response.table
    /\ Len(response.human) > 0 /\ WellFormedEmpty(response)
    /\ requests = 1 /\ targets = <<>>

\* ------------------------------------------------------------------------
\* Properties of the human filters and of the SEA rank
\* ------------------------------------------------------------------------
SeaParsed == parsed.done /\ raw_table.kind = "sea"
Ppb3Parsed == parsed.done /\ raw_table.kind = "ppb3"

\* a full, non-info row whose Target_Key ends with _HUMAN in any casing
HumanRow(tr) ==
    ~tr.info /\ ~tr.short /\ endswith(text_upper(text_strip(tr.key)), HUMAN_SUFFIX)

\* C19: the SEA parser emits one row per human row of the table, in table
\* order, with Rank 1..h; rows it skips consume no rank value.
C19_SeaRankCountsHumanRowsOnly ==
    SeaParsed =>
        LET h == Cardinality({k \in 1..Len(raw_table.rows) : HumanRow(raw_table.rows[k])})
        IN  /\ Len(parsed.rows) = h
            /\ \A n \in 1..Len(parsed.rows) :
                  /\ parsed.rows[n].Rank = n
                  /\ HumanRow(raw_table.rows[parsed.rows[n].tr])
            /\ \A n, m \in 1..Len(parsed.rows) :
                  n < m => parsed.rows[n].tr < parsed.rows[m].tr

C19_Witness ==
    /\ SeaParsed
    /\ Len(raw_table.rows) = 2
    /\ ~HumanRow(raw_table.rows[1]) /\ ~raw_table.rows[1].short /\ ~raw_table.rows[1].info
    /\ HumanRow(raw_table.rows[2])
    /\ Len(parsed.rows) = 1 /\ parsed.rows[1].Rank = 1 /\ parsed.rows[1].tr = 2

swap_char(c) == IF IsUpperChar(c) THEN lower_char(c) ELSE upper_char(c)
Recasings(t) ==
    {text_upper(t), text_lower(t), [k \in 1..Len(t) |-> swap_char(t[k])]}
Paddings(t) == {<<" ">> \o t, t \o <<" ">>, <<" ", " ">> \o t \o <<" ">>}

\* the organism names Homo sapiens or H. sapiens, in any casing
OrganismIsHuman(o) ==
    contains(text_lower(o), HOMO_SAPIENS) \/ text_lower(text_strip(o)) = H_SAPIENS

\* C20: every row the SEA parser emits has a key passing
\* is_human_target_uniprot, every row the PPB3 parser emits an organism
\* passing is_homo_sapiens; recasing a cell never changes the answer of
\* either predicate, and padding an organism with blanks never changes the
\* answer of is_homo_sapiens.
C20_EmittedRowsAreHuman ==
    /\ SeaParsed =>
          /\ \A n \in 1..Len(parsed.rows) :
                /\ is_human_target_uniprot(parsed.rows[n].Target_Key)
                /\ endswith(text_upper(parsed.rows[n].Target_Key), HUMAN_SUFFIX)
          /\ \A k \in 1..Len(raw_table.rows) : \A v \in Recasings(raw_table.rows[k].key) :
                is_human_target_uniprot(v) = is_human_target_uniprot(raw_table.rows[k].key)
    /\ Ppb3Parsed =>
          /\ \A n \in 1..Len(parsed.rows) :
                /\ is_homo_sapiens(parsed.rows[n].Organism)
                /\ OrganismIsHuman(parsed.rows[n].Organism)
          /\ \A k \in 1..Len(raw_table.rows) :
                LET o == raw_table.rows[k].organism
                IN  \A v \in Recasings(o) \cup Paddings(o) \cup
                              UNION {Recasings(w) : w \in Paddings(o)} :
                        is_homo_sapiens(v) = is_homo_sapiens(o)

C20_Witness ==
    /\ SeaParsed
    /\ Len(parsed.rows) = 2
    /\ parsed.rows[1].Target_Key = <<"p", "_", "h", "u", "m", "a", "n">>
    /\ parsed.rows[2].Target_Key = <<"P", "_", "H", "u", "m", "a", "n">>

\* ------------------------------------------------------------------------
\* Properties of cancellation
\* ------------------------------------------------------------------------
Stopped == proc = "killed"

\* C11 (as claimed): once /stop has ended the run, no row of the molecule
\* that was being processed is persisted, and no source block was cut off
\* inside its external calls: the stop takes effect between iterations.
C11_CooperativeStop ==
    Stopped =>
        /\ ~in_call
        /\ (cur >= 1 /\ cur <= Len(compounds)) =>
              \A k \in 1..Len(out.combined) :
                  ~SameMolecule(out.combined[k], compounds[cur])

\* C12 (as claimed): the browser session is created once per run, from no
\* session, and it is not open when the run has ended, whether the process
\* finished, an exception left the loop or /stop ended it.
C12_DriverReleasedOnEveryExit ==
    [][ /\ (driver' = "open" /\ driver # "open") => driver = "none"
        /\ (proc' \in {"exited", "killed"}) => driver' # "open"
      ]_vars

\* ------------------------------------------------------------------------
\* run_target_prediction.py: the rows the three adapters build from the
\* cells of a results table
\* ------------------------------------------------------------------------
\* Texts of a probability cell of the SwissTargetPrediction table
ProbTexts == {"0.8", "0.4*", "N/A", ""}

\* prob_regex.search(prob_text): the first match of [0-9]*\.?[0-9]+, or
\* "" for None
prob_regex_search(text) ==
    CASE text = "0.8" -> "0.8"
      [] text = "0.4*" -> "0.4"
      [] OTHER -> ""

\* float(text) on the score grid; DASH stands for ValueError
to_float(text) ==
    CASE text = "0.8" -> SCORE_08
      [] text = "0.4" -> SCORE_04
      [] OTHER -> DASH

\* prob_val = float(m.group(0)) if m else 0.0
swiss_prob_val(prob_text) ==
    IF prob_regex_search(prob_text) # "" THEN to_float(prob_regex_search(prob_text)) ELSE 0

\* A row of the SwissTargetPrediction table: fewer cells than mapped
\* columns, or target, accession and probability cells.
SwissTr(short, target, uniprot, prob) ==
    [short |-> short, target |-> target, uniprot |-> uniprot, prob_text |-> prob]
SwissTrs ==
    {SwissTr(TRUE, "", "", "")}
    \cup {SwissTr(FALSE, "T1", "P1", p) : p \in ProbTexts}
    \cup {SwissTr(FALSE, "", "P1", "0.8"), SwissTr(FALSE, "T1", "", "0.8")}

\* the two "continue" of the loop over trs[1:]
swiss_row_skipped(tr) == tr.short \/ tr.target = "" \/ tr.uniprot = ""

\* swisstarget_parse_table on the rows below the header: Rank is the index
\* of the table row; an empty score field "" is NaN
swisstarget_parse_trs(trs) ==
    LET kept == SelectSeq([k \in 1..Len(trs) |-> k], LAMBDA k : ~swiss_row_skipped(trs[k]))
    IN  [n \in 1..Len(kept) |->
            [Database |-> SWISS,
             Rank |-> kept[n],
             Target_Name |-> trs[kept[n]].target,
             Probability |-> swiss_prob_val(trs[kept[n]].prob_text),
             P_Value |-> NaN,
             Max_Tc |-> NaN,
             tr |-> kept[n]]]

\* A body row of the SEA table with its p-value and MaxTC cells: a number
\* of the grid, DASH for a text that is no number, NaN for an empty cell.
SeaCellTr(key, pval, maxtc) ==
    [info |-> FALSE, short |-> FALSE, key |-> key, pval |-> pval, maxtc |-> maxtc]
SeaCellTrs ==
    {SeaCellTr(<<"P", "_", "H", "U", "M", "A", "N">>, p, t) :
        p \in {PVAL_1E5, DASH, NaN}, t \in {SCORE_04, NaN}}
    \cup {SeaCellTr(<<"P", "_", "M", "O", "U", "S", "E">>, PVAL_1E5, SCORE_04)}

\* mutant of sea_probability: the SEA row carries its MaxTC as probability
sea_probability_from_maxtc(tr) == tr.maxtc
\* "Probability": "" of the SEA row
sea_probability(tr) == NaN

\* sea_parse_table with the score fields: the cell texts are copied
sea_parse_cells(trs) ==
    LET kept == SelectSeq([k \in 1..Len(trs) |-> k], LAMBDA k : ~sea_row_skipped(trs[k]))
    IN  [n \in 1..Len(kept) |->
            [Database |-> SEA,
             Rank |-> n,
             Target_Name |-> "T1",
             Probability |-> sea_probability(trs[kept[n]]),
             P_Value |-> trs[kept[n]].pval,
             Max_Tc |-> trs[kept[n]].maxtc,
             tr |-> kept[n]]]

\* Rows of a PPB3 page
Ppb3CellTrs ==
    {Ppb3Tr(TRUE, "", DASH, <<>>)}
    \cup {Ppb3Tr(FALSE, "T1", p, <<"H", "o", "m", "o", " ", "s", "a", "p", "i", "e", "n", "s">>) :
            p \in {SCORE_04, SCORE_08, DASH}}

\* run_ppb3_for_compound: one row per target of the page; Rank "" is 0
ppb3_rows_of(ts) ==
    [n \in 1..Len(ts) |->
        [Database |-> PPB3,
         Rank |-> 0,
         Target_Name |-> ts[n].Target_Name,
         Probability |-> ts[n].Probability,
         P_Value |-> NaN,
         Max_Tc |-> NaN,
         tr |-> ts[n].tr]]

CellTables ==
    {[kind |-> "swiss", table |-> TRUE, rows |-> t] : t \in SeqsUpTo(SwissTrs, MaxRawRows)}
    \cup {[kind |-> "sea", table |-> TRUE, rows |-> t] : t \in SeqsUpTo(SeaCellTrs, MaxRawRows)}
    \cup {[kind |-> "ppb3", table |-> TRUE, rows |-> t] : t \in SeqsUpTo(Ppb3CellTrs, MaxRawRows)}

SwissRows ==
    /\ raw_table.kind = "swiss" /\ ~parsed.done
    /\ parsed' = [done |-> TRUE, rows |-> swisstarget_parse_trs(raw_table.rows)]
    /\ UNCHANGED <<raw_table, fvars, rvars, pvars, cvars, tvars>>

SeaRows ==
    /\ raw_table.kind = "sea" /\ ~parsed.done
    /\ parsed' = [done |-> TRUE, rows |-> sea_parse_cells(raw_table.rows)]
    /\ UNCHANGED <<raw_table, fvars, rvars, pvars, cvars, tvars>>

Ppb3Rows ==
    /\ raw_table.kind = "ppb3" /\ ~parsed.done
    /\ parsed' = [done |-> TRUE,
                  rows |-> ppb3_rows_of(ppb3_extract_trs(raw_table.table, raw_table.rows))]
    /\ UNCHANGED <<raw_table, fvars, rvars, pvars, cvars, tvars>>

InitRecords ==
    /\ raw_table \in CellTables
    /\ parsed = [done |-> FALSE, rows |-> <<>>]
    /\ FilterOff /\ RunOff /\ Ppb3Off /\ CancelOff

NextRecords == SwissRows \/ SeaRows \/ Ppb3Rows

SpecRecords == InitRecords /\ [][NextRecords]_vars

\* ------------------------------------------------------------------------
\* Properties of the adapter rows
\* ------------------------------------------------------------------------
Populated(v) == v # NaN

Unparseable(r) ==
    LET tr == raw_table.rows[r.tr]
    IN  CASE r.Database = SWISS -> prob_regex_search(tr.prob_text) = ""
          [] r.Database = PPB3 -> ~IsNumber(tr.prob)
          [] OTHER -> FALSE

\* C22 (as claimed): a row whose probability cell holds no number has an
\* empty Probability; a SEA row whose p-value or MaxTC cell holds no number
\* has no number in that field.
C22_UnparseableScoreIsAbsent ==
    parsed.done =>
        \A n \in 1..Len(parsed.rows) :
            LET r == parsed.rows[n]
                tr == raw_table.rows[r.tr]
            IN  /\ Unparseable(r) => r.Probability = NaN
                /\ r.Database = SEA =>
                      /\ ~IsNumber(tr.pval) => ~IsNumber(r.P_Value)
                      /\ ~IsNumber(tr.maxtc) => ~IsNumber(r.Max_Tc)

\* ------------------------------------------------------------------------
\* Properties of the written outputs
\* ------------------------------------------------------------------------
\* C23 (as claimed): the metadata written with the aggregate holds the
\* generation time, a human-filtering rule description for each source and
\* the row count, and the JSON document holds exactly the persisted rows.
C23_MetadataHasTimeRulesAndRowCount ==
    out.written =>
        /\ "timestamp" \in out.metadata.keys
        /\ "human_filtering" \in out.metadata.keys
        /\ out.metadata.human_filtering = Databases
        /\ "row_count" \in out.metadata.keys
        /\ Len(out.json_rows) = Len(out.combined)

\* ------------------------------------------------------------------------
\* run_target_prediction.py: read_phytochemical_csv and the start of main()
\* ------------------------------------------------------------------------
\* Header lines of the input CSV: name, plant and SMILES column
CsvHeaders ==
    {<<"Phytochemical Name", "Plant Source", " SMILES ">>,
     <<"compound", "herb", "smiles">>,
     <<"Name", "Source", "Smiles">>,
     <<"Phytochemical", "Plant", "Structure">>}

\* c.strip().lower() on the column names
col_norm(c) ==
    CASE c = "Phytochemical Name" -> "phytochemical name"
      [] c = "Plant Source" -> "plant source"
      [] c = " SMILES " -> "smiles"
      [] c = "Smiles" -> "smiles"
      [] c = "Name" -> "name"
      [] c = "Source" -> "source"
      [] c = "Phytochemical" -> "phytochemical"
      [] c = "Plant" -> "plant"
      [] c = "Structure" -> "structure"
      [] OTHER -> c

\* find_col: the first candidate that is a column; "" stands for None
find_col(candidates, columns) ==
    LET hits == {i \in 1..Len(candidates) :
                    \E k \in 1..Len(columns) : columns[k] = candidates[i]}
    IN  IF hits = {} THEN ""
        ELSE candidates[CHOOSE i \in hits : \A j \in hits : i <= j]

\* the texts pd.read_csv reads as a missing value
NA_VALUES == {"", "NA", "NaN", "nan", "N/A", "null", "None"}

\* str(row[col]): a missing value is float nan and prints as "nan"
cell_str(cell) == IF cell \in NA_VALUES THEN "nan" ELSE cell

\* smi.lower()
str_lower(s) ==
    CASE s = "NaN" -> "nan"
      [] s = "C1" -> "c1"
      [] s = "C2" -> "c2"
      [] OTHER -> s

\* SMILES cells of the file
SmilesCells == {"C1", " C2 ", "  ", "", "NA", " NaN "}

\* Row k of the file: name and plant cells of InputRow(k), and a SMILES cell
CsvRow(k, smi) == <<InputRow(k).Phytochemical, InputRow(k).Plant, smi>>

\* --max-compounds: not given (None), or an integer
NoMax == [given |-> FALSE, n |-> 0]
MaxOptions == {NoMax} \cup {[given |-> TRUE, n |-> k] : k \in 0..MaxCsvRows}

row_value(columns, row, col) ==
    row[CHOOSE k \in 1..Len(columns) :
            columns[k] = col /\ \A j \in 1..(k - 1) : columns[j] # col]

\* str(row[col_map[f]]).strip() if col_map[f] else ""
field_of(columns, row, col) ==
    IF col # "" THEN str_strip(cell_str(row_value(columns, row, col))) ELSE ""

\* mutant of smiles_dropped: the "nan" text is kept
smiles_dropped_empty_only(smi) == smi = ""
\* smi = str(row[col_map["smiles"]]).strip(); if not smi or smi.lower() == "nan": continue
smiles_dropped(smi) == smi = "" \/ str_lower(smi) = "nan"

\* if max_compounds and len(records) >= max_compounds: break
limit_reached(max_compounds, len) ==
    max_compounds.given /\ max_compounds.n # 0 /\ len >= max_compounds.n

\* the loop over df.iterrows(): records after rows k..Len(rows), given the
\* records collected so far
RECURSIVE collect(_, _, _, _, _, _)
collect(columns, col_map, rows, k, records, max_compounds) ==
    IF k > Len(rows) THEN records
    ELSE LET smi == str_strip(cell_str(row_value(columns, rows[k], col_map.smiles)))
         IN  IF smiles_dropped(smi)
             THEN collect(columns, col_map, rows, k + 1, records, max_compounds)
             ELSE LET rec == Mol(field_of(columns, rows[k], col_map.phytochemical),
                                 field_of(columns, rows[k], col_map.plant),
                                 smi)
                      recs == Append(records, rec)
                  IN  IF limit_reached(max_compounds, Len(recs)) THEN recs
                      ELSE collect(columns, col_map, rows, k + 1, recs, max_compounds)

MISSING_COLUMN == "RuntimeError: SMILES column not found. Cannot proceed."
NO_VALID_ROWS == "RuntimeError: No valid SMILES rows found after cleaning."

\* mutant of no_records_error: an empty list is returned
no_records_unchecked(records) == ""
\* if not records: raise RuntimeError(...)
no_records_error(records) == IF records = <<>> THEN NO_VALID_ROWS ELSE ""

\* read_phytochemical_csv of an existing file: the records, or the error raised
read_phytochemical_csv(file, max_compounds) ==
    LET columns == [k \in 1..Len(file.header) |-> col_norm(file.header[k])]
        col_map == [phytochemical |-> find_col(<<"phytochemical name", "phytochemical",
                                                 "compound", "molecule">>, columns),
                    plant |-> find_col(<<"plant source", "plant", "herb">>, columns),
                    smiles |-> find_col(<<"smiles">>, columns)]
    IN  IF col_map.smiles = "" THEN [records |-> <<>>, error |-> MISSING_COLUMN]
        ELSE LET records == collect(columns, col_map, file.rows, 1, <<>>, max_compounds)
             IN  [records |-> records, error |-> no_records_error(records)]

CsvFile(header, cells, max_compounds) ==
    [kind |-> "csv", table |-> TRUE, header |-> header,
     rows |-> [k \in 1..Len(cells) |-> CsvRow(k, cells[k])],
     max_compounds |-> max_compounds]

CsvFiles ==
    {CsvFile(h, cells, m) :
        h \in CsvHeaders, cells \in SeqsUpTo(SmilesCells, MaxCsvRows), m \in MaxOptions}

\* compounds = read_phytochemical_csv(...); if not compounds: print(...); return
ReadCsv ==
    /\ pc = "load"
    /\ LET r == read_phytochemical_csv(raw_table, raw_table.max_compounds)
       IN  /\ parsed' = [done |-> TRUE, rows |-> <<>>, error |-> r.error]
           /\ compounds' = r.records
           /\ pc' = IF r.error # "" THEN "load_error"
                    ELSE IF r.records = <<>> THEN "done" ELSE "start"
    /\ UNCHANGED <<raw_table, skip, cur, all_rows, driver, out, last_query, seen,
                   fvars, pvars, cvars, tvars>>

NotLoaded == [done |-> FALSE, rows |-> <<>>, error |-> ""]

InitLoader ==
    /\ raw_table \in CsvFiles
    /\ parsed = NotLoaded
    /\ compounds = <<>> /\ skip = [swiss |-> FALSE, sea |-> FALSE, ppb3 |-> FALSE]
    /\ pc = "load" /\ cur = 0 /\ all_rows = <<>> /\ driver = "none"
    /\ out = NoFiles /\ last_query = "none"
    /\ seen = 0
    /\ FilterOff /\ Ppb3Off /\ CancelOff

NextLoader == ReadCsv

SpecLoader == InitLoader /\ [][NextLoader]_vars

\* main() from the call of the loader to save_outputs
InitMain ==
    /\ raw_table \in {CsvFile(h, cells, NoMax) :
                        h \in {<<"compound", "herb", "smiles">>,
                               <<"Phytochemical", "Plant", "Structure">>},
                        cells \in SeqsUpTo({"C1", ""}, MaxCompounds)}
    /\ parsed = NotLoaded
    /\ compounds = <<>>
    /\ skip \in {[swiss |-> FALSE, sea |-> FALSE, ppb3 |-> FALSE],
                 [swiss |-> TRUE, sea |-> TRUE, ppb3 |-> TRUE]}
    /\ pc = "load" /\ cur = 0 /\ all_rows = <<>> /\ driver = "none"
    /\ out = NoFiles /\ last_query = "none"
    /\ seen = 0
    /\ FilterOff /\ Ppb3Off /\ CancelOff

NextMain == ReadCsv \/ NextRun

SpecMain == InitMain /\ [][NextMain]_vars

\* ------------------------------------------------------------------------
\* Properties of the loader
\* ------------------------------------------------------------------------
Loaded == parsed.done /\ raw_table.kind = "csv"
HasSmilesColumn == \E k \in 1..Len(raw_table.header) : raw_table.header[k] \in {" SMILES ", "smiles", "Smiles"}
HasNameColumns == raw_table.header[1] \in {"Phytochemical Name", "compound"}

\* the SMILES cell is empty, holds blanks only or the missing-value marker
BlankOrMissing(cell) == cell \in {"", "  ", "NA", " NaN "}

\* the rows of the file that are not dropped, in file order
ValidRows ==
    SelectSeq([k \in 1..Len(raw_table.rows) |-> k],
              LAMBDA k : ~BlankOrMissing(raw_table.rows[k][3]))

Min(a, b) == IF a <= b THEN a ELSE b

\* C24: the loader returns records of rows with a usable SMILES only, one
\* per such row and in file order: all of them without a maximum, the
\* first N of them with a maximum N >= 1.
C24_LoaderDropsBlankSmilesKeepsOrder ==
    (Loaded /\ parsed.error = "") =>
        /\ Len(compounds) <= Len(ValidRows)
        /\ ~raw_table.max_compounds.given => Len(compounds) = Len(ValidRows)
        /\ (raw_table.max_compounds.given /\ raw_table.max_compounds.n >= 1) =>
              Len(compounds) = Min(raw_table.max_compounds.n, Len(ValidRows))
        /\ \A n \in 1..Len(compounds) :
              LET row == raw_table.rows[ValidRows[n]]
              IN  /\ compounds[n].SMILES \in {"C1", "C2"}
                  /\ row[3] \in {compounds[n].SMILES, " " \o compounds[n].SMILES \o " "}
                  /\ HasNameColumns =>
                        compounds[n].Phytochemical = row[1] /\ compounds[n].Plant = row[2]

C24_Witness ==
    /\ Loaded /\ Len(raw_table.rows) = 2
    /\ raw_table.rows[1][3] = "  " /\ raw_table.rows[2][3] = " C2 "
    /\ compounds = <<Mol("M2", "H2", "C2")>>

\* C26 (as claimed): with --max-compounds N the loader returns at most N
\* records, and they are the first N records it returns without a maximum.
C26_MaxCompoundsIsPrefix ==
    (Loaded /\ parsed.error = "" /\ raw_table.max_compounds.given) =>
        LET N == raw_table.max_compounds.n
            unbounded == read_phytochemical_csv(raw_table, NoMax).records
        IN  /\ Len(compounds) <= N
            /\ compounds = SubSeq(unbounded, 1, Min(N, Len(unbounded)))

\* C25: the loader raises the missing-column error exactly when the file
\* has no SMILES column, the no-valid-rows error exactly when it has one
\* and no row is left; after either error the process has ended: no browser
\* session exists, no source was queried and nothing was written.
C25_LoaderErrorsStopTheRun ==
    Loaded =>
        /\ (parsed.error = MISSING_COLUMN) = ~HasSmilesColumn
        /\ (parsed.error = NO_VALID_ROWS) = (HasSmilesColumn /\ ValidRows = <<>>)
        /\ (~HasSmilesColumn \/ ValidRows = <<>>) =>
              /\ pc = "load_error"
              /\ driver = "none" /\ last_query = "none" /\ cur = 0
              /\ all_rows = <<>> /\ out = NoFiles

C25_Witness ==
    /\ Loaded /\ parsed.error = NO_VALID_ROWS
    /\ Len(raw_table.rows) = 2 /\ pc = "load_error" /\ driver = "none"

\* ------------------------------------------------------------------------
\* run_target_prediction.py: a run into an output directory that holds the
\* files of an earlier run
\* ------------------------------------------------------------------------
\* all_rows of an earlier run on the third row of the input file
EarlierRows ==
    {<<OutRow(InputRow(3), SEA, 1)>>,
     <<OutRow(InputRow(3), SWISS, 1), OutRow(InputRow(3), PPB3, 0)>>}

InitRerun ==
    /\ compounds \in CompoundLists
    /\ skip \in {[swiss |-> FALSE, sea |-> FALSE, ppb3 |-> FALSE],
                 [swiss |-> TRUE, sea |-> TRUE, ppb3 |-> TRUE]}
    /\ pc = "start" /\ cur = 0 /\ all_rows = <<>> /\ driver = "none"
    /\ out \in {save_outputs(rws, NoFiles) : rws \in EarlierRows}
    /\ last_query = "none"
    /\ seen = 0
    /\ FilterOff /\ Ppb3Off /\ SpeciesOff /\ CancelOff

SpecRerun == InitRerun /\ [][NextRun]_vars

\* C27 (as claimed): when a run has finished, the combined file holds
\* exactly the rows of that run, and every per-source file present in the
\* output directory is the combined file restricted to its source.
C27_OutputsRebuiltByEachRun ==
    pc = "done" =>
        /\ out.combined = sort_rows(finalize_rank(all_rows))
        /\ out.json_rows = out.combined
        /\ \A db \in out.sources :
              out.by_db[db] = SelectSeq(out.combined, LAMBDA r : r.Database = db)

\* ------------------------------------------------------------------------
\* build_tcmnp_input.py on an aggregate of molecules loaded from an input
\* without a plant or a compound-name column
\* ------------------------------------------------------------------------
\* A SwissTargetPrediction row of the aggregate; Plant or Phytochemical is
\* "" when the loader found no such column ("" is written by save_outputs
\* as an empty CSV field, which pd.read_csv reads as a missing value)
DefaultsRow(name, plant, gene) ==
    [EdgeRow(SWISS, plant, gene, "T1", MaxScore) EXCEPT !.Phytochemical = name]

DefaultsRows ==
    {DefaultsRow(name, plant, gene) :
        name \in {"M1", ""}, plant \in {"H1", ""}, gene \in {"G1", ""}}

DefaultsAggregates == {WithRank(s) : s \in SeqsUpTo(DefaultsRows, MaxEdgeRows)}

InitEdgeDefaults ==
    /\ df_exists = TRUE
    /\ df \in DefaultsAggregates
    /\ tcm_file = NoTcmFile
    /\ resp = Idle
    /\ RunOff /\ Ppb3Off /\ SpeciesOff /\ CancelOff

SpecEdgeDefaults == InitEdgeDefaults /\ [][NextEdges]_vars

\* C30 (as claimed): every retained row with a gene symbol or a target
\* name has its (Plant, Phytochemical, target) triple in the edge list,
\* also when Plant or Phytochemical is the empty default of the loader.
C30_RetainedRowsReachEdgeList ==
    (Built /\ tcm_file.exists) =>
        \A i \in 1..Len(resp.rows) : \A t \in Symbols \cup {"T1", "T2"} :
            ClaimedTarget(resp.rows[i], t) =>
                \E k \in 1..Len(tcm_file.rows) :
                    tcm_file.rows[k] = [herb |-> resp.rows[i].Plant,
                                        molecule |-> resp.rows[i].Phytochemical,
                                        target |-> t]

\* ------------------------------------------------------------------------
\* backend/app.py: /run-stream, /reanalyze, /stop, the pipeline threads and
\* the log streams
\* ------------------------------------------------------------------------
RequestIds == 1..MaxRequests
Stages == {"prediction", "network"}

\* Messages on a log queue.  LINE and NAME_LINE are output lines of a
\* subprocess; NAME_LINE is the line run_target_prediction.py prints for a
\* compound named METHADONE.
DONE == "DONE"
LINE == "[SwissTarget] Running (Homo sapiens)..."
NAME_LINE == "[1/1] METHADONE | H1"
SubprocessLines == {LINE, NAME_LINE}

\* "DONE" in msg
contains_done(msg) == msg \in {DONE, NAME_LINE}

NoThread == [pc |-> "none", stage |-> "none", child |-> "none", lines |-> 0, puts |-> 0]
NoStream == [state |-> "none", closed_by |-> ""]

\* the request that arrives next
NextId == CHOOSE id \in RequestIds :
            stream[id].state = "none" /\ \A j \in RequestIds : j < id => stream[j].state # "none"

\* if pipeline_running: the error generator; else Queue(), Thread(...).start()
\* and the log generator
start_request(stage) ==
    /\ \E id \in RequestIds : stream[id].state = "none"
    /\ IF pipeline_running
       THEN /\ stream' = [stream EXCEPT ![NextId] = [state |-> "rejected", closed_by |-> DONE]]
            /\ UNCHANGED threads
       ELSE /\ stream' = [stream EXCEPT ![NextId].state = "open"]
            /\ threads' = [threads EXCEPT ![NextId] = [NoThread EXCEPT !.pc = "created", !.stage = stage]]
    /\ UNCHANGED <<log_queue, cvars, fvars, rvars, pvars, svars>>

RunStream == \E stage \in Stages : start_request(stage)

Reanalyze == start_request("network")

put(id, msgs) == log_queue' = [log_queue EXCEPT ![id] = @ \o msgs]

\* global pipeline_running; pipeline_running = True
ThreadSetsRunning(id) ==
    /\ threads[id].pc = "created"
    /\ pipeline_running' = TRUE
    /\ threads' = [threads EXCEPT ![id].pc = "begin"]
    /\ UNCHANGED <<current_process, proc, in_call, log_queue, stream, fvars, rvars, pvars, svars>>

\* queue.put("ERROR: ..."); queue.put("DONE"); return -- no input CSV (the
\* flag is cleared first) or no custom network input; or an exception
\* raised before Popen returns, reported by the except clause
ThreadErrorExit(id) ==
    /\ threads[id].pc = "begin"
    /\ \E kind \in {"no_csv", "no_custom_input", "exception"} :
          /\ kind = "no_custom_input" => threads[id].stage = "network"
          /\ put(id, <<IF kind = "exception" THEN "EXCEPTION" ELSE "ERROR", DONE>>)
          /\ pipeline_running' = IF kind = "no_csv" THEN FALSE ELSE pipeline_running
    /\ threads' = [threads EXCEPT ![id].pc = "finally", ![id].puts = @ + 1]
    /\ UNCHANGED <<current_process, proc, in_call, stream, fvars, rvars, pvars, svars>>

\* prediction: queue.put("PROGRESS:START..."); current_process = Popen(...)
\* network: custom input copied; if pipeline_running: queue.put("PROGRESS:
\*          COMPLETED...") else: queue.put("DONE"); return; then Popen(r_cmd)
ThreadPopen(id) ==
    /\ threads[id].pc = "begin"
    /\ IF threads[id].stage = "network" /\ ~pipeline_running
       THEN /\ put(id, <<"PROGRESS", DONE>>)
            /\ threads' = [threads EXCEPT ![id].pc = "finally", ![id].puts = @ + 1]
            /\ UNCHANGED current_process
       ELSE /\ put(id, <<"PROGRESS">>)
            /\ current_process' = ToString(id)
            /\ threads' = [threads EXCEPT ![id].pc = "reading", ![id].child = "running"]
    /\ UNCHANGED <<pipeline_running, proc, in_call, stream, fvars, rvars, pvars, svars>>

\* for line in current_process.stdout: if not pipeline_running: break; queue.put(line)
ThreadReadsLine(id) ==
    /\ threads[id].pc = "reading" /\ threads[id].child = "running"
    /\ threads[id].lines < MaxLines
    /\ \E line \in SubprocessLines :
          IF ~pipeline_running
          THEN /\ threads' = [threads EXCEPT ![id].pc = "wait", ![id].lines = @ + 1]
               /\ UNCHANGED log_queue
          ELSE /\ put(id, <<line>>)
               /\ threads' = [threads EXCEPT ![id].lines = @ + 1]
    /\ UNCHANGED <<cvars, stream, fvars, rvars, pvars, svars>>

\* the subprocess ends by itself
ChildEnds(id) ==
    /\ threads[id].child = "running"
    /\ threads' = [threads EXCEPT ![id].child = "exited"]
    /\ UNCHANGED <<log_queue, cvars, stream, fvars, rvars, pvars, svars>>

\* the subprocess has ended or was terminated: the loop over stdout ends
ThreadReadsEof(id) ==
    /\ threads[id].pc = "reading" /\ threads[id].child \in {"exited", "killed"}
    /\ threads' = [threads EXCEPT ![id].pc = "wait"]
    /\ UNCHANGED <<log_queue, cvars, stream, fvars, rvars, pvars, svars>>

Ended(p) == \E id \in RequestIds : ToString(id) = p /\ threads[id].child \in {"exited", "killed"}

\* current_process.wait(); current_process = None -- on the global handle:
\* None raises AttributeError, which the except clause reports
ThreadWaits(id) ==
    /\ threads[id].pc = "wait"
    /\ IF current_process = "none"
       THEN /\ put(id, <<"EXCEPTION", DONE>>)
            /\ threads' = [threads EXCEPT ![id].pc = "finally", ![id].puts = @ + 1]
            /\ UNCHANGED current_process
       ELSE /\ Ended(current_process)
            /\ current_process' = "none"
            /\ threads' = [threads EXCEPT ![id].pc = "after_wait"]
            /\ UNCHANGED log_queue
    /\ UNCHANGED <<pipeline_running, proc, in_call, stream, fvars, rvars, pvars, svars>>

\* prediction: if pipeline_running: queue.put("PROGRESS:FINALIZING...");
\*             queue.put("DONE"); pipeline_running = False; return
\* analysis:   if not pipeline_running: queue.put("DONE"); return
\*             queue.put("DONE")
ThreadPutsDone(id) ==
    /\ threads[id].pc = "after_wait"
    /\ put(id, IF pipeline_running /\ threads[id].stage = "prediction"
               THEN <<"PROGRESS", DONE>> ELSE <<DONE>>)
    /\ pipeline_running' = IF threads[id].stage = "prediction" THEN FALSE ELSE pipeline_running
    /\ threads' = [threads EXCEPT ![id].pc = "finally", ![id].puts = @ + 1]
    /\ UNCHANGED <<current_process, proc, in_call, stream, fvars, rvars, pvars, svars>>

\* finally: pipeline_running = False; current_process = None
ThreadFinally(id) ==
    /\ threads[id].pc = "finally"
    /\ pipeline_running' = FALSE
    /\ current_process' = "none"
    /\ threads' = [threads EXCEPT ![id].pc = "finished"]
    /\ UNCHANGED <<proc, in_call, log_queue, stream, fvars, rvars, pvars, svars>>

\* GET /stop
Stop ==
    /\ pipeline_running' = FALSE
    /\ current_process' = "none"
    /\ threads' = [id \in RequestIds |->
                      IF ToString(id) = current_process /\ threads[id].child = "running"
                      THEN [threads[id] EXCEPT !.child = "killed"]
                      ELSE threads[id]]
    /\ UNCHANGED <<proc, in_call, log_queue, stream, fvars, rvars, pvars, svars>>

\* if "DONE" in msg: break
closes_stream(msg) == contains_done(msg)

\* log_generator: one message taken from the queue and yielded
LogGenerator(id) ==
    /\ stream[id].state = "open" /\ log_queue[id] # <<>>
    /\ log_queue' = [log_queue EXCEPT ![id] = Tail(@)]
    /\ stream' = IF closes_stream(Head(log_queue[id]))
                 THEN [stream EXCEPT ![id] = [state |-> "closed", closed_by |-> Head(log_queue[id])]]
                 ELSE stream
    /\ UNCHANGED <<threads, cvars, fvars, rvars, pvars, svars>>

ThreadStep(id) ==
    \/ ThreadSetsRunning(id) \/ ThreadErrorExit(id) \/ ThreadPopen(id)
    \/ ThreadReadsLine(id) \/ ThreadReadsEof(id) \/ ThreadWaits(id)
    \/ ThreadPutsDone(id) \/ ThreadFinally(id)

InitBackend ==
    /\ pipeline_running = FALSE /\ current_process = "none"
    /\ proc = "none" /\ in_call = FALSE
    /\ threads = [id \in RequestIds |-> NoThread]
    /\ log_queue = [id \in RequestIds |-> <<>>]
    /\ stream = [id \in RequestIds |-> NoStream]
    /\ FilterOff /\ RunOff /\ Ppb3Off /\ SpeciesOff

\* requests, /stop and the pipeline threads
NextBackend ==
    \/ RunStream \/ Reanalyze \/ Stop
    \/ \E id \in RequestIds : ThreadStep(id)
    \/ \E id \in RequestIds : ChildEnds(id)

SpecBackend == InitBackend /\ [][NextBackend]_vars

\* one accepted request: its thread, /stop and its log stream
InitStream ==
    /\ pipeline_running = FALSE /\ current_process = "none"
    /\ proc = "none" /\ in_call = FALSE
    /\ \E stage \in Stages :
          threads = [id \in RequestIds |->
                        IF id = 1 THEN [NoThread EXCEPT !.pc = "created", !.stage = stage]
                        ELSE NoThread]
    /\ log_queue = [id \in RequestIds |-> <<>>]
    /\ stream = [id \in RequestIds |-> IF id = 1 THEN [NoStream EXCEPT !.state = "open"] ELSE NoStream]
    /\ FilterOff /\ RunOff /\ Ppb3Off /\ SpeciesOff

NextStream ==
    \/ Stop
    \/ \E id \in RequestIds : ThreadStep(id)
    \/ \E id \in RequestIds : ChildEnds(id)
    \/ \E id \in RequestIds : LogGenerator(id)

SpecStream == InitStream /\ [][NextStream]_vars

\* the thread is scheduled, the subprocess ends and the event loop keeps
\* polling the queue
FairSpecStream ==
    /\ SpecStream
    /\ \A id \in RequestIds :
          WF_vars(ThreadStep(id)) /\ WF_vars(ChildEnds(id)) /\ WF_vars(LogGenerator(id))

\* ------------------------------------------------------------------------
\* Properties of the backend
\* ------------------------------------------------------------------------
Executing(id) == threads[id].pc \notin {"none", "finished"}

\* C28 (as claimed): at no time are two pipeline threads executing.
C28_AtMostOneThread ==
    Cardinality({id \in RequestIds : Executing(id)}) <= 1

\* C29 (as claimed): a thread that has ended has put DONE exactly once, no
\* running thread has put it twice, and a log stream that has closed was
\* closed by the DONE sentinel.
C29_DoneOnceAndOnlyDoneCloses ==
    \A id \in RequestIds :
        /\ threads[id].pc = "finished" => threads[id].puts = 1
        /\ threads[id].puts <= 1
        /\ stream[id].state = "closed" => stream[id].closed_by = DONE

====
